---- MODULE Spec2Model ----
(***************************************************************************)
(* The local content engine of tyzo-cli (src/src/localApi.ts, class        *)
(* LocalApi): a file-backed store of entries, globals and assets.          *)
(*                                                                         *)
(* The file system below contentDir is the state.  An entry operation is   *)
(* one atomic step of a caller that awaits each call before the next; a    *)
(* call that runs concurrently with others (an asset upload, a setEntry, a *)
(* getEntries scan) is a process that yields at each of its awaits, so     *)
(* that the calls can interleave.                                          *)
(***************************************************************************)
EXTENDS Integers, Sequences, FiniteSets, TLC

VARIABLES
    collections,   \* LocalApi.collections: the names of the registered collections
    globals,       \* LocalApi.globals: the names of the registered globals
    dirs,          \* the directories that exist below contentDir
    entryFiles,    \* entryFiles[c][id]: the file contentDir/c/id.json
    globalFiles,   \* globalFiles[g]: the file contentDir/globals/g.json
    assetFiles,    \* assetFiles[f]: the file contentDir/assets/f
    up,            \* up[p]: the call of process p that yields at its awaits
    ret            \* the call the sequential caller made last, with its outcome

vars == <<collections, globals, dirs, entryFiles, globalFiles, assetFiles, up, ret>>

----------------------------------------------------------------------------
(* Bounds of the model *)

\* the largest offset a getEntries call is given
MaxOffset == 2
\* the largest limit a getEntries call is given
MaxLimit == 2
\* the largest suffix counter an upload tries before the model stops it
MaxCounter == 2
\* the number of uploadAsset calls of a behaviour
NumUploads == 3

\* the limit getEntries applies when none is given
DefaultLimit == 1000

----------------------------------------------------------------------------
(* JSON values, as far as the entries of the model need them *)

Undefined == [t |-> "undefined"]
Str(s) == [t |-> "str", v |-> s]
Num(n) == [t |-> "num", n |-> n]
Ref(id, c) == [t |-> "ref", id |-> id, collection |-> c]
JsonNull == [t |-> "null"]

\* JSON.stringify leaves out the properties of an object whose value is undefined.
StripUndefined(obj) == [k \in {k \in DOMAIN obj : obj[k] # Undefined} |-> obj[k]]

\* Deep equality of two objects as test frameworks decide it (a property whose
\* value is undefined counts as a property that is not there).
DeepEqual(a, b) == StripUndefined(a) = StripUndefined(b)

\* The text JSON.stringify(obj, null, 2) produces for an envelope object whose
\* properties hold entry objects.
JSONStringify(obj) ==
    [valid |-> TRUE,
     doc |-> [k \in DOMAIN StripUndefined(obj) |-> StripUndefined(obj[k])]]

\* a file text that is no JSON
CorruptText == [valid |-> FALSE]

\* JSON.parse: the document of a text, or a SyntaxError
JSONParse(text) ==
    IF text.valid THEN [ok |-> TRUE, doc |-> text.doc] ELSE [ok |-> FALSE]

----------------------------------------------------------------------------
(* Files *)

NoFile == [kind |-> "nofile"]
File(text) == [kind |-> "file", readable |-> TRUE, text |-> text]
\* a file the process has no permission to open
UnreadableFile == [kind |-> "file", readable |-> FALSE, text |-> CorruptText]

\* fs.readFile(path, "utf-8"): the text, or a rejection (ENOENT, EACCES)
ReadFile(f) ==
    IF f.kind = "file" /\ f.readable THEN [ok |-> TRUE, text |-> f.text]
    ELSE [ok |-> FALSE]

----------------------------------------------------------------------------
(* Outcomes of a call *)

Null == [kind |-> "null"]
UndefinedResult == [kind |-> "undefined"]
Val(e) == [kind |-> "value", v |-> e]
Void == [kind |-> "void"]
Bool(b) == [kind |-> "bool", b |-> b]
Raise(err) == [kind |-> "raise", err |-> err]

Idle == [op |-> "idle"]

----------------------------------------------------------------------------
(* Small arithmetic and sequences *)

Min(a, b) == IF a < b THEN a ELSE b
Max(a, b) == IF a > b THEN a ELSE b

\* Array.prototype.slice(start, end)
Slice(s, start, end) ==
    LET len == Len(s)
        from == IF start < 0 THEN Max(len + start, 0) ELSE Min(start, len)
        to == IF end < 0 THEN Max(len + end, 0) ELSE Min(end, len)
    IN IF from >= to THEN <<>> ELSE SubSeq(s, from + 1, to)

\* the orders in which the members of a finite set can be listed
Perms(S) ==
    {s \in [1..Cardinality(S) -> S] : \A i, j \in DOMAIN s : i # j => s[i] # s[j]}

----------------------------------------------------------------------------
(* The names and the documents of the model *)

\* names a caller may give for a collection; "ghost" is never registered
CollectionNames == {"posts", "ghost"}
\* names a caller may give for a global; "nope" is never registered
GlobalNames == {"site", "nope"}
Ids == {"a", "b", "c"}

\* payloads the schema of "posts" accepts
PDraft == [status |-> Str("draft")]
PPublished == [status |-> Str("published")]
PWithAuthor == [status |-> Str("published"), author |-> Ref("a", "posts")]
PUndefinedAuthor == [status |-> Str("draft"), author |-> Undefined]
\* payloads it rejects: a required field missing, a field of the wrong type
PMissingStatus == [author |-> Ref("a", "posts")]
PWrongType == [status |-> Num(7)]
\* a payload whose author is the entry "b" of "posts"
PAuthorB == [status |-> Str("draft"), author |-> Ref("b", "posts")]
Payloads ==
    {PDraft, PPublished, PWithAuthor, PUndefinedAuthor, PMissingStatus, PWrongType}

\* an entry written while "ghost" was still a registered collection
DGhostAuthor == [status |-> Str("draft"), author |-> Ref("a", "ghost")]

\* values given to setGlobalValue: accepted, accepted with an unknown key, rejected
GSite == [title |-> Str("Home")]
GSiteExtra == [title |-> Str("Home"), extra |-> Str("x")]
GWrongType == [title |-> Num(7)]
GlobalValues == {GSite, GSiteExtra, GWrongType}

----------------------------------------------------------------------------
(* Schema validation: the collaborators of setEntry and setGlobalValue *)

\* validate(data) of the validator compiled from convertZodSchema(col.schema, ...):
\* "status" is a required string, "author" an optional reference to a registered
\* collection, "rank" an optional number, "createdAt" an optional nullable date
\* string, and a property whose value is undefined counts as missing.
Validate(reg, d) ==
    LET o == StripUndefined(d)
    IN /\ "status" \in DOMAIN o
       /\ o["status"].t = "str"
       /\ "author" \in DOMAIN o =>
              /\ o["author"].t = "ref"
              /\ o["author"].collection \in reg
       /\ "rank" \in DOMAIN o => o["rank"].t = "num"
       /\ "createdAt" \in DOMAIN o => o["createdAt"].t \in {"str", "null"}

\* glob.schema.parse(data) for the schema z.object({title: z.string()}): the value
\* with its unknown keys stripped, or a ZodError
ZodParse(v) ==
    IF "title" \in DOMAIN v /\ v["title"].t = "str"
    THEN [ok |-> TRUE, parsed |-> [k \in {"title"} |-> v[k]]]
    ELSE [ok |-> FALSE]

\* doesMatchFilter(entry, filters) for field-equality filters: every field the
\* filter names is present in the entry and equal to the filter's value
DoesMatchFilter(entry, filters) ==
    \A c \in filters : c[1] \in DOMAIN entry /\ entry[c[1]] = c[2]

----------------------------------------------------------------------------
(* The registry *)

\* getCollectionRef(ref), getGlobalRef(ref) for a name: is it registered
GetCollectionRef(reg, ref) == ref \in reg
GetGlobalRef(reg, ref) == ref \in reg

----------------------------------------------------------------------------
(* Entry store *)

\* the file contentDir/c/id.json
FileOf(fs, c, id) ==
    IF c \in DOMAIN fs /\ id \in DOMAIN fs[c] THEN fs[c][id] ELSE NoFile

\* path.join(contentDir, "globals", g + ".json") is also the path of entry g of a
\* collection named "globals": the global files as they are once the entry files
\* are fs, and the entry files as they are once the global files are gf
GlobalFilesGiven(gf, fs) ==
    [g \in DOMAIN gf |->
        IF "globals" \in DOMAIN fs /\ g \in DOMAIN fs["globals"]
        THEN fs["globals"][g] ELSE gf[g]]
EntryFilesGiven(fs, gf) ==
    [c \in DOMAIN fs |->
        IF c = "globals"
        THEN [id \in DOMAIN fs[c] |-> IF id \in DOMAIN gf THEN gf[id] ELSE fs[c][id]]
        ELSE fs[c]]

\* EntryFileText with the entry stored under another key than the one read back
EntryFileTextWrongKey(d) == JSONStringify([entry |-> d])

\* the text setEntry writes
EntryFileText(d) == JSONStringify([data |-> d])

RECURSIVE GetEntry(_, _, _, _, _)
RECURSIVE IncludeLoop(_, _, _, _)

\* IncludeLoop with the references of the referenced entry resolved as well
IncludeLoopTwoLevels(reg, fs, entry, include) ==
    IF include = <<>> THEN Val(entry)
    ELSE LET f == Head(include)
             value == IF f \in DOMAIN entry THEN entry[f] ELSE Undefined
         IN IF value.t = "ref"
            THEN LET other == GetEntry(reg, fs, value.collection, value.id, <<>>)
                     inner == IF other.kind = "value" /\ f \in DOMAIN other.v
                              THEN other.v[f] ELSE Undefined
                     deep == IF inner.t = "ref"
                             THEN GetEntry(reg, fs, inner.collection, inner.id, <<>>)
                             ELSE Null
                     nested == IF inner.t = "ref" /\ deep.kind # "raise"
                               THEN Val([other.v EXCEPT
                                            ![f] = ("entry" :> deep) @@ inner])
                               ELSE other
                 IN IF other.kind = "raise" THEN other
                    ELSE IncludeLoop(reg, fs,
                                     [entry EXCEPT ![f] = ("entry" :> nested) @@ value],
                                     Tail(include))
            ELSE IncludeLoop(reg, fs, entry, Tail(include))

\* the loop over `include` of getEntry and of getEntries, for one entry: the entry
\* with each reference field resolved, or the error of a nested getEntry
IncludeLoop(reg, fs, entry, include) ==
    IF include = <<>> THEN Val(entry)
    ELSE LET f == Head(include)
             value == IF f \in DOMAIN entry THEN entry[f] ELSE Undefined
         IN IF value.t = "ref"
            THEN LET other == GetEntry(reg, fs, value.collection, value.id, <<>>)
                 IN IF other.kind = "raise" THEN other
                    ELSE IncludeLoop(reg, fs,
                                     [entry EXCEPT ![f] = ("entry" :> other) @@ value],
                                     Tail(include))
            ELSE IncludeLoop(reg, fs, entry, Tail(include))

\* getEntry(collection, id, {include})
GetEntry(reg, fs, c, id, include) ==
    IF ~GetCollectionRef(reg, c) THEN Raise("notfound")
    ELSE LET content == ReadFile(FileOf(fs, c, id))
         IN IF ~content.ok THEN Null
            ELSE LET data == JSONParse(content.text)
                 IN IF ~data.ok THEN Null
                    ELSE IF "data" \notin DOMAIN data.doc THEN UndefinedResult
                    ELSE LET inc == IncludeLoop(reg, fs, data.doc["data"], include)
                         IN IF inc.kind = "raise" THEN Null ELSE inc

\* SetEntryOutcome with the file written before the payload is validated
SetEntryOutcomeWriteFirst(reg, ds, fs, c, id, d) ==
    IF ~GetCollectionRef(reg, c)
    THEN [res |-> Raise("notfound"), dirs |-> ds, files |-> fs]
    ELSE IF FileOf(fs, c, id).kind = "file" /\ ~FileOf(fs, c, id).readable
    THEN [res |-> Raise("io"), dirs |-> ds \cup {c}, files |-> fs]
    ELSE [res |-> IF Validate(reg, d) THEN Void ELSE Raise("validation"),
          dirs |-> ds \cup {c},
          files |-> [fs EXCEPT ![c][id] = File(JSONStringify([data |-> d]))]]

\* setEntry(collection, id, data): its outcome, the directories and the files after it
SetEntryOutcome(reg, ds, fs, c, id, d) ==
    IF ~GetCollectionRef(reg, c)
    THEN [res |-> Raise("notfound"), dirs |-> ds, files |-> fs]
    ELSE IF ~Validate(reg, d)
    THEN [res |-> Raise("validation"), dirs |-> ds \cup {c}, files |-> fs]
    ELSE IF FileOf(fs, c, id).kind = "file" /\ ~FileOf(fs, c, id).readable
    THEN [res |-> Raise("io"), dirs |-> ds \cup {c}, files |-> fs]
    ELSE [res |-> Void, dirs |-> ds \cup {c},
          files |-> [fs EXCEPT ![c][id] = File(EntryFileText(d))]]

\* DeleteEntryOutcome reporting success whether or not there was a file
DeleteEntryOutcomeAlwaysTrue(reg, fs, c, id) ==
    IF ~GetCollectionRef(reg, c) THEN [res |-> Raise("notfound"), files |-> fs]
    ELSE [res |-> Bool(TRUE), files |-> [fs EXCEPT ![c][id] = NoFile]]

\* deleteEntry(collection, id): its outcome and the files after it
DeleteEntryOutcome(reg, fs, c, id) ==
    IF ~GetCollectionRef(reg, c) THEN [res |-> Raise("notfound"), files |-> fs]
    ELSE IF FileOf(fs, c, id).kind = "file"
    THEN [res |-> Bool(TRUE), files |-> [fs EXCEPT ![c][id] = NoFile]]
    ELSE [res |-> Bool(FALSE), files |-> fs]

----------------------------------------------------------------------------
(* Query engine *)

\* an option that is not given, and one that is
NotGiven == [on |-> FALSE]
Given(n) == [on |-> TRUE, n |-> n]
Filters(F) == [on |-> TRUE, f |-> F]

\* the ids of the *.json files of the directory of collection c
ExistingIds(fs, c) ==
    IF c \in DOMAIN fs THEN {id \in DOMAIN fs[c] : fs[c][id].kind = "file"} ELSE {}

\* the { entries, limit, offset, count } object getEntries returns
List(entries, limit, offset, count) ==
    [kind |-> "list", entries |-> entries, limit |-> limit, offset |-> offset,
     count |-> count]

\* readFile and JSON.parse of one enumerated file, unwrapped from its envelope
ReadEntry(f) ==
    LET content == ReadFile(f)
    IN IF ~content.ok THEN [ok |-> FALSE]
       ELSE LET data == JSONParse(content.text)
            IN IF ~data.ok THEN [ok |-> FALSE]
               ELSE [ok |-> TRUE,
                     entry |-> IF "data" \in DOMAIN data.doc THEN data.doc["data"]
                               ELSE Undefined]

\* FilterEntries with the filter step left out
FilterEntriesSkipped(entries, filters) == entries

\* the filter step of getEntries
FilterEntries(entries, filters) ==
    IF filters.on
    THEN SelectSeq(entries, LAMBDA e : DoesMatchFilter(e, filters.f))
    ELSE entries

\* Paginate with the limit applied before the offset
PaginateLimitFirst(entries, offset, limit) ==
    LET cut == Slice(entries, 0, limit)
    IN IF offset.on /\ offset.n # 0 THEN Slice(cut, offset.n, Len(cut)) ELSE cut

\* the pagination step of getEntries: slice(offset), then slice(0, limit)
Paginate(entries, offset, limit) ==
    LET dropped == IF offset.on /\ offset.n # 0
                   THEN Slice(entries, offset.n, Len(entries))
                   ELSE entries
    IN Slice(dropped, 0, limit)

\* new Date(str).getTime() for the date strings of the model, in hours since
\* 2023-12-31T00:00:00Z; any other string gives NaN
DateTimes ==
    ("2023-12-31T23:00:00Z" :> 23) @@ ("2024-01-01T00:00:00+01:00" :> 23)
    @@ ("2024-01-01T00:00:00+03:00" :> 21) @@ ("2024-01-02T00:00:00Z" :> 48)
GetTime(str) == IF str \in DOMAIN DateTimes THEN Given(DateTimes[str]) ELSE NotGiven

\* String(value) for the numbers and strings of the model
StringOf(v) ==
    IF v.t = "str" THEN v.v
    ELSE IF v.t = "num"
    THEN (CASE v.n = 1 -> "1" [] v.n = 2 -> "2" [] v.n = 10 -> "10" [] OTHER -> "7")
    ELSE "[object Object]"

\* the position of the strings of the model in the order of localeCompare
Collation ==
    ("[object Object]" :> 0) @@ ("1" :> 1) @@ ("10" :> 2) @@ ("2" :> 3)
    @@ ("2023-12-31T23:00:00Z" :> 4) @@ ("2024-01-01T00:00:00+01:00" :> 5)
    @@ ("2024-01-01T00:00:00+03:00" :> 6) @@ ("2024-01-02T00:00:00Z" :> 7)
    @@ ("7" :> 8) @@ ("draft" :> 9) @@ ("Home" :> 10) @@ ("published" :> 11)
    @@ ("x" :> 12)
LocaleCompare(strA, strB) ==
    IF Collation[strA] < Collation[strB] THEN -1
    ELSE IF Collation[strA] > Collation[strB] THEN 1 ELSE 0

\* a[key]
Field(e, key) == IF key \in DOMAIN e THEN e[key] ELSE Undefined
\* value == null
IsNullish(v) == v.t \in {"null", "undefined"}

\* Compare with the direction ignored: every key sorts ascending
CompareAscendingOnly(a, b, sort) ==
    LET valueA == Field(a, sort[1])
        valueB == Field(b, sort[1])
    IN IF IsNullish(valueA) /\ IsNullish(valueB) THEN 0
       ELSE IF IsNullish(valueA) THEN -1
       ELSE IF IsNullish(valueB) THEN 1
       ELSE IF valueA.t = "num" /\ valueB.t = "num" THEN valueA.n - valueB.n
       ELSE IF /\ valueA.t = "str" /\ valueB.t = "str"
               /\ GetTime(valueA.v).on /\ GetTime(valueB.v).on
       THEN GetTime(valueA.v).n - GetTime(valueB.v).n
       ELSE LocaleCompare(StringOf(valueA), StringOf(valueB))

\* the comparator getEntries gives to Array.prototype.sort for sort = [key, direction]
Compare(a, b, sort) ==
    LET key == sort[1]
        direction == sort[2]
        valueA == Field(a, key)
        valueB == Field(b, key)
    IN IF IsNullish(valueA) /\ IsNullish(valueB) THEN 0
       ELSE IF IsNullish(valueA) THEN (IF direction = "asc" THEN -1 ELSE 1)
       ELSE IF IsNullish(valueB) THEN (IF direction = "asc" THEN 1 ELSE -1)
       ELSE IF valueA.t = "num" /\ valueB.t = "num"
       THEN (IF direction = "asc" THEN valueA.n - valueB.n ELSE valueB.n - valueA.n)
       ELSE IF /\ valueA.t = "str" /\ valueB.t = "str"
               /\ GetTime(valueA.v).on /\ GetTime(valueB.v).on
       THEN (IF direction = "asc"
             THEN GetTime(valueA.v).n - GetTime(valueB.v).n
             ELSE GetTime(valueB.v).n - GetTime(valueA.v).n)
       ELSE (IF direction = "asc"
             THEN LocaleCompare(StringOf(valueA), StringOf(valueB))
             ELSE LocaleCompare(StringOf(valueB), StringOf(valueA)))

RECURSIVE Insert(_, _, _)
RECURSIVE SortPass(_, _)
RECURSIVE SortEntriesLastKeyFirst(_, _)
RECURSIVE SortEntries(_, _)

\* e put into the sorted sequence s behind every element that does not compare
\* greater than it
Insert(e, s, sort) ==
    IF s = <<>> THEN <<e>>
    ELSE IF Compare(Head(s), e, sort) > 0 THEN <<e>> \o s
    ELSE <<Head(s)>> \o Insert(e, Tail(s), sort)

\* entries.sort(comparator) for one sort key: Array.prototype.sort is stable
SortPass(entries, sort) ==
    IF entries = <<>> THEN <<>>
    ELSE Insert(entries[Len(entries)],
                SortPass(SubSeq(entries, 1, Len(entries) - 1), sort), sort)

\* SortEntries with the passes made from the last key to the first
SortEntriesLastKeyFirst(entries, sorts) ==
    IF sorts = <<>> THEN entries
    ELSE SortPass(SortEntriesLastKeyFirst(entries, Tail(sorts)), Head(sorts))

\* the loop over options.sort: one pass per key, in the order the keys are given
SortEntries(entries, sorts) ==
    IF sorts = <<>> THEN entries
    ELSE SortEntries(SortPass(entries, Head(sorts)), Tail(sorts))

\* options?.sort ?? []
SortOption(opts) == IF "sort" \in DOMAIN opts THEN opts.sort ELSE <<>>

\* PageOf with the entries sorted before the page is cut out
PageOfSortFirst(filtered, opts, limit) ==
    Paginate(SortEntries(filtered, SortOption(opts)), opts.offset, limit)

\* the entries getEntries returns for the filtered entries: paginated, then sorted
PageOf(filtered, opts, limit) ==
    SortEntries(Paginate(filtered, opts.offset, limit), SortOption(opts))

\* getEntries after its reads: the entries read, filtered, paginated and sorted,
\* with their references resolved
Listing(reg, fs, all, opts) ==
    LET limit == IF opts.limit.on THEN opts.limit.n ELSE DefaultLimit
        offset == IF opts.offset.on THEN opts.offset.n ELSE 0
        filtered == FilterEntries(all, opts.filters)
        totalCount == Len(filtered)
        page == PageOf(filtered, opts, limit)
        incs == [i \in 1..Len(page) |-> IncludeLoop(reg, fs, page[i], opts.include)]
    IN IF \E i \in 1..Len(page) : incs[i].kind = "raise"
       THEN Raise("notfound")
       ELSE List([i \in 1..Len(page) |-> incs[i].v], limit, offset,
                 IF opts.includeCount THEN Given(totalCount) ELSE NotGiven)

\* getEntries(collection, options) when readdir lists the files in `order`
GetEntries(reg, ds, fs, c, opts, order) ==
    LET limit == IF opts.limit.on THEN opts.limit.n ELSE DefaultLimit
        offset == IF opts.offset.on THEN opts.offset.n ELSE 0
    IN IF ~GetCollectionRef(reg, c) THEN Raise("notfound")
       ELSE IF c \notin ds THEN List(<<>>, limit, offset, NotGiven)
       ELSE LET reads == [i \in 1..Len(order) |-> ReadEntry(FileOf(fs, c, order[i]))]
            IN IF \E i \in 1..Len(order) : ~reads[i].ok THEN Raise("io")
               ELSE Listing(reg, fs, [i \in 1..Len(order) |-> reads[i].entry], opts)

----------------------------------------------------------------------------
(* Global store *)

\* getGlobalValue(ref)
GetGlobalValue(reg, gf, g) ==
    IF ~GetGlobalRef(reg, g) THEN Raise("notfound")
    ELSE LET content == ReadFile(IF g \in DOMAIN gf THEN gf[g] ELSE NoFile)
         IN IF ~content.ok THEN Null
            ELSE LET data == JSONParse(content.text)
                 IN IF ~data.ok THEN Null
                    ELSE IF "data" \notin DOMAIN data.doc THEN UndefinedResult
                    ELSE Val(data.doc["data"])

\* SetGlobalValueOutcome with the value written as given instead of as parsed
SetGlobalValueOutcomeUnparsed(reg, ds, gf, g, v) ==
    IF ~GetGlobalRef(reg, g)
    THEN [res |-> Raise("notfound"), dirs |-> ds, files |-> gf]
    ELSE IF ~ZodParse(v).ok
    THEN [res |-> Raise("validation"), dirs |-> ds \cup {"globals"}, files |-> gf]
    ELSE IF gf[g].kind = "file" /\ ~gf[g].readable
    THEN [res |-> Raise("io"), dirs |-> ds \cup {"globals"}, files |-> gf]
    ELSE [res |-> Void, dirs |-> ds \cup {"globals"},
          files |-> [gf EXCEPT ![g] = File(JSONStringify([data |-> v]))]]

\* setGlobalValue(global, data): its outcome, the directories and the files after it
SetGlobalValueOutcome(reg, ds, gf, g, v) ==
    IF ~GetGlobalRef(reg, g)
    THEN [res |-> Raise("notfound"), dirs |-> ds, files |-> gf]
    ELSE IF ~ZodParse(v).ok
    THEN [res |-> Raise("validation"), dirs |-> ds \cup {"globals"}, files |-> gf]
    ELSE IF gf[g].kind = "file" /\ ~gf[g].readable
    THEN [res |-> Raise("io"), dirs |-> ds \cup {"globals"}, files |-> gf]
    ELSE [res |-> Void, dirs |-> ds \cup {"globals"},
          files |-> [gf EXCEPT ![g] =
                        File(JSONStringify([data |-> ZodParse(v).parsed]))]]

----------------------------------------------------------------------------
(* The calls of the sequential caller.  `ret` holds the call and its outcome  *)
(* until the caller takes it (Return); `before` is the entry file as it was   *)
(* when the call was made.                                                    *)

SetEntryCall(c, id, d) ==
    LET out == SetEntryOutcome(collections, dirs, entryFiles, c, id, d)
    IN /\ ret = Idle
       /\ dirs' = out.dirs
       /\ entryFiles' = out.files
       /\ globalFiles' = GlobalFilesGiven(globalFiles, out.files)
       /\ ret' = [op |-> "setEntry", col |-> c, id |-> id, data |-> d,
                  res |-> out.res, before |-> FileOf(entryFiles, c, id)]
       /\ UNCHANGED <<collections, globals, assetFiles, up>>

GetEntryCall(c, id, include) ==
    /\ ret = Idle
    /\ ret' = [op |-> "getEntry", col |-> c, id |-> id, include |-> include,
               res |-> GetEntry(collections, entryFiles, c, id, include)]
    /\ UNCHANGED <<collections, globals, dirs, entryFiles, globalFiles, assetFiles, up>>

DeleteEntryCall(c, id) ==
    LET out == DeleteEntryOutcome(collections, entryFiles, c, id)
    IN /\ ret = Idle
       /\ entryFiles' = out.files
       /\ globalFiles' = GlobalFilesGiven(globalFiles, out.files)
       /\ ret' = [op |-> "deleteEntry", col |-> c, id |-> id, res |-> out.res,
                  before |-> FileOf(entryFiles, c, id)]
       /\ UNCHANGED <<collections, globals, dirs, assetFiles, up>>

GetEntriesCall(c, opts) ==
    /\ ret = Idle
    /\ \E order \in Perms(ExistingIds(entryFiles, c)) :
           ret' = [op |-> "getEntries", col |-> c, opts |-> opts, order |-> order,
                   res |-> GetEntries(collections, dirs, entryFiles, c, opts, order)]
    /\ UNCHANGED <<collections, globals, dirs, entryFiles, globalFiles, assetFiles, up>>

GetGlobalValueCall(g) ==
    /\ ret = Idle
    /\ ret' = [op |-> "getGlobalValue", global |-> g,
               res |-> GetGlobalValue(globals, globalFiles, g)]
    /\ UNCHANGED <<collections, globals, dirs, entryFiles, globalFiles, assetFiles, up>>

SetGlobalValueCall(g, v) ==
    LET out == SetGlobalValueOutcome(globals, dirs, globalFiles, g, v)
    IN /\ ret = Idle
       /\ dirs' = out.dirs
       /\ globalFiles' = out.files
       /\ entryFiles' = EntryFilesGiven(entryFiles, out.files)
       /\ ret' = [op |-> "setGlobalValue", global |-> g, data |-> v, res |-> out.res]
       /\ UNCHANGED <<collections, globals, assetFiles, up>>

\* the caller takes the outcome of its call and is free to make the next one
Return ==
    /\ ret # Idle
    /\ ret' = Idle
    /\ UNCHANGED <<collections, globals, dirs, entryFiles, globalFiles, assetFiles, up>>

----------------------------------------------------------------------------
(* Spec: the entry store and the global store, over a content directory that  *)
(* may hold files from before the process started                             *)

\* the include lists a caller gives
Includes == {<<>>, <<"author">>}

\* what an entry file found at start may be
FoundEntryFiles ==
    {NoFile, File(CorruptText), UnreadableFile, File(EntryFileText(DGhostAuthor))}
\* what a global file found at start may be
FoundGlobalFiles == {NoFile, File(CorruptText), UnreadableFile}

NoAssets == [f \in {} |-> NoFile]
NoUploads == [p \in {} |-> Idle]

\* the options of the getEntries calls of Spec: only `include` is given
PlainOptions ==
    [filters : {NotGiven}, offset : {NotGiven}, limit : {NotGiven},
     include : Includes, includeCount : {FALSE}]

\* getEntries called without options
NoOptions ==
    [filters |-> NotGiven, offset |-> NotGiven, limit |-> NotGiven,
     include |-> <<>>, includeCount |-> FALSE]

Init ==
    /\ collections = {"posts"}
    /\ globals = {"site"}
    /\ entryFiles \in [{"posts"} -> [Ids -> FoundEntryFiles]]
    /\ globalFiles \in [{"site"} -> FoundGlobalFiles]
    /\ dirs = {c \in {"posts"} : ExistingIds(entryFiles, c) # {}}
                \cup {d \in {"globals"} : globalFiles["site"] # NoFile}
    /\ assetFiles = NoAssets
    /\ up = NoUploads
    /\ ret = Idle

Next ==
    \/ \E c \in CollectionNames, id \in Ids, d \in Payloads : SetEntryCall(c, id, d)
    \/ \E c \in CollectionNames, id \in Ids, inc \in Includes : GetEntryCall(c, id, inc)
    \/ \E c \in CollectionNames, id \in Ids : DeleteEntryCall(c, id)
    \/ \E c \in CollectionNames, opts \in PlainOptions : GetEntriesCall(c, opts)
    \/ \E g \in GlobalNames : GetGlobalValueCall(g)
    \/ \E g \in GlobalNames, v \in GlobalValues : SetGlobalValueCall(g, v)
    \/ Return

Spec == Init /\ [][Next]_vars

----------------------------------------------------------------------------
(* Properties of the entry store *)

\* C1: after a setEntry(c, id, e) that completes, getEntry(c, id) returns a value
\* deep-equal to e, also when the call overwrote an earlier entry of that id.
C1_SetThenGetRoundTrip ==
    (ret.op = "setEntry" /\ ret.res = Void) =>
        LET r == GetEntry(collections, entryFiles, ret.col, ret.id, <<>>)
        IN r.kind = "value" /\ DeepEqual(r.v, ret.data)

\* a completed setEntry that overwrote a readable entry holding another value
C1_Witness ==
    /\ ret.op = "setEntry"
    /\ ret.res = Void
    /\ ret.before.kind = "file"
    /\ ret.before.text.valid
    /\ ~DeepEqual(ret.before.text.doc["data"], ret.data)

\* C2: a setEntry whose payload fails validation raises, writes no entry file, and
\* getEntry(c, id) returns afterwards what it returned before the call.
C2_RejectedWriteChangesNothing ==
    [][(/\ ret.op = "idle"
        /\ ret'.op = "setEntry"
        /\ ret'.col \in collections
        /\ ~Validate(collections, ret'.data))
       => /\ ret'.res = Raise("validation")
          /\ entryFiles' = entryFiles
          /\ \A inc \in Includes :
                GetEntry(collections', entryFiles', ret'.col, ret'.id, inc)
                    = GetEntry(collections, entryFiles, ret'.col, ret'.id, inc)]_vars

\* a rejected setEntry on an id that holds a readable entry, which is still there
C2_Witness ==
    /\ ret.op = "setEntry"
    /\ ret.res = Raise("validation")
    /\ ret.before.kind = "file"
    /\ ret.before.text.valid
    /\ GetEntry(collections, entryFiles, ret.col, ret.id, <<>>)
           = Val(ret.before.text.doc["data"])

\* the outcome of a deleteEntry on a registered collection
C3_DeleteOutcome ==
    (ret.op = "deleteEntry" /\ ret.col \in collections) =>
        /\ ret.res = Bool(ret.before.kind = "file")
        /\ FileOf(entryFiles, ret.col, ret.id) = NoFile
        /\ GetEntry(collections, entryFiles, ret.col, ret.id, <<>>) = Null

\* an id without a file gets a file again by a setEntry of that id only
C3_StaysDeleted ==
    \A c \in collections, id \in Ids :
        (FileOf(entryFiles, c, id) = NoFile /\ FileOf(entryFiles', c, id) # NoFile)
            => /\ ret'.op = "setEntry"
               /\ ret'.col = c
               /\ ret'.id = id
               /\ ret'.res = Void

\* C3: deleteEntry on an existing entry returns true and getEntry returns null from
\* then on until the next setEntry of that id; deleteEntry on an id with no file
\* returns false without raising.
C3_DeleteThenGetNull == []C3_DeleteOutcome /\ [][C3_StaysDeleted]_vars

\* a deleteEntry of an id that had a file
C3_Witness ==
    /\ ret.op = "deleteEntry"
    /\ ret.res = Bool(TRUE)
    /\ ret.before.kind = "file"

----------------------------------------------------------------------------
(* Properties of the global store *)

\* after a setGlobalValue that completes, getGlobalValue returns the parsed value
C13_SetThenGet ==
    (ret.op = "setGlobalValue" /\ ret.res = Void) =>
        LET r == GetGlobalValue(globals, globalFiles, ret.global)
        IN r.kind = "value" /\ DeepEqual(r.v, ZodParse(ret.data).parsed)

\* a setGlobalValue whose value the schema rejects raises and changes no file
C13_RejectedChangesNothing ==
    (/\ ret.op = "idle"
     /\ ret'.op = "setGlobalValue"
     /\ ret'.global \in globals
     /\ ~ZodParse(ret'.data).ok)
        => /\ ret'.res = Raise("validation")
           /\ globalFiles' = globalFiles
           /\ GetGlobalValue(globals', globalFiles', ret'.global)
                  = GetGlobalValue(globals, globalFiles, ret'.global)

\* C13: setGlobalValue(g, v) with v accepted by the schema of g, then
\* getGlobalValue(g), returns a value deep-equal to the schema-parsed form of v; a
\* rejected value raises and leaves the stored value unchanged.
C13_GlobalRoundTrip == []C13_SetThenGet /\ [][C13_RejectedChangesNothing]_vars

\* a value with a key the schema does not know was stored without that key
C13_Witness ==
    /\ ret.op = "setGlobalValue"
    /\ ret.res = Void
    /\ ret.data = GSiteExtra
    /\ GetGlobalValue(globals, globalFiles, ret.global) = Val(GSite)

----------------------------------------------------------------------------
(* Properties of the error handling of the entry and global stores *)

\* the entry a readable, parseable file holds
StoredEntry(f) == f.text.doc["data"]
IsParseable(f) == f.kind = "file" /\ f.readable /\ f.text.valid

\* entry e has, in a field `include` names, a reference to an unregistered collection
ReachesUnregistered(reg, e, include) ==
    \E i \in 1..Len(include) :
        /\ include[i] \in DOMAIN e
        /\ e[include[i]].t = "ref"
        /\ e[include[i]].collection \notin reg

\* a call given the name of an unregistered collection or global raises "not found"
C6_DirectNameRaises ==
    /\ (ret.op \in {"getEntry", "getEntries", "setEntry", "deleteEntry"}
            /\ ret.col \notin collections) => ret.res = Raise("notfound")
    /\ (ret.op \in {"getGlobalValue", "setGlobalValue"}
            /\ ret.global \notin globals) => ret.res = Raise("notfound")

\* getEntries raises "not found" when `include` leads it to an unregistered collection
C6_GetEntriesIncludeRaises ==
    (/\ ret.op = "getEntries"
     /\ ret.col \in collections
     /\ ~ret.opts.filters.on /\ ~ret.opts.offset.on /\ ~ret.opts.limit.on
     /\ \A id \in ExistingIds(entryFiles, ret.col) :
            IsParseable(FileOf(entryFiles, ret.col, id))
     /\ \E id \in ExistingIds(entryFiles, ret.col) :
            ReachesUnregistered(collections,
                                StoredEntry(FileOf(entryFiles, ret.col, id)),
                                ret.opts.include))
        => ret.res = Raise("notfound")

\* getEntry raises "not found" when `include` leads it to an unregistered collection
C6_GetEntryIncludeRaises ==
    (/\ ret.op = "getEntry"
     /\ ret.col \in collections
     /\ IsParseable(FileOf(entryFiles, ret.col, ret.id))
     /\ ReachesUnregistered(collections,
                            StoredEntry(FileOf(entryFiles, ret.col, ret.id)),
                            ret.include))
        => ret.res = Raise("notfound")

\* C6: every operation given, directly or through a reference field resolved for
\* `include`, a collection or global name that is not registered raises "not found"
\* and never turns it into a null, false or empty result.
C6_UnregisteredNameRaises ==
    C6_DirectNameRaises /\ C6_GetEntriesIncludeRaises /\ C6_GetEntryIncludeRaises

\* getEntry and getGlobalValue return null for a file that cannot be read or parsed
C7_SingleReadsReturnNull ==
    /\ (/\ ret.op = "getEntry"
        /\ ret.col \in collections
        /\ FileOf(entryFiles, ret.col, ret.id).kind = "file"
        /\ ~IsParseable(FileOf(entryFiles, ret.col, ret.id))) => ret.res = Null
    /\ (/\ ret.op = "getGlobalValue"
        /\ ret.global \in globals
        /\ globalFiles[ret.global].kind = "file"
        /\ ~IsParseable(globalFiles[ret.global])) => ret.res = Null

\* getEntries does not raise over a file that cannot be read or parsed
C7_ListingDoesNotRaise ==
    (/\ ret.op = "getEntries"
     /\ ret.col \in collections
     /\ \E id \in ExistingIds(entryFiles, ret.col) :
            ~IsParseable(FileOf(entryFiles, ret.col, id)))
        => ret.res # Raise("io")

\* C7: no read operation raises because a content file is unreadable or holds
\* unparseable JSON: getEntry and getGlobalValue return null for it, and getEntries
\* over a directory that contains such a file still returns a result.
C7_ReadsNeverRaiseOnBadFile == C7_SingleReadsReturnNull /\ C7_ListingDoesNotRaise

----------------------------------------------------------------------------
(* SpecQuery: getEntries with filters and pagination over a collection that   *)
(* setEntry and deleteEntry fill                                              *)

PublishedFilter == {<<"status", Str("published")>>}

QueryOptions ==
    [filters : {NotGiven, Filters({}), Filters(PublishedFilter)},
     offset : {NotGiven} \cup {Given(n) : n \in 0..MaxOffset},
     limit : {NotGiven} \cup {Given(n) : n \in 0..MaxLimit},
     include : {<<>>},
     includeCount : BOOLEAN]

InitQuery ==
    /\ collections = {"posts"}
    /\ globals = {"site"}
    /\ entryFiles = [c \in {"posts"} |-> [id \in Ids |-> NoFile]]
    /\ globalFiles = [g \in {"site"} |-> NoFile]
    /\ dirs = {}
    /\ assetFiles = NoAssets
    /\ up = NoUploads
    /\ ret = Idle

NextQuery ==
    \/ \E id \in Ids, d \in Payloads : SetEntryCall("posts", id, d)
    \/ \E id \in Ids : DeleteEntryCall("posts", id)
    \/ \E opts \in QueryOptions : GetEntriesCall("posts", opts)
    \/ Return

SpecQuery == InitQuery /\ [][NextQuery]_vars

\* the entries of the collection of the last getEntries call, in the order readdir
\* listed their files
Enumerated == [i \in 1..Len(ret.order) |->
                  StoredEntry(FileOf(entryFiles, ret.col, ret.order[i]))]

\* entry e has every field the constraints name, with the value they give
FieldsEqual(e, constraints) ==
    \A c \in constraints : c[1] \in DOMAIN e /\ e[c[1]] = c[2]

\* the enumerated entries that match the filter of the call, in enumeration order
Matching ==
    IF ret.opts.filters.on
    THEN SelectSeq(Enumerated, LAMBDA e : FieldsEqual(e, ret.opts.filters.f))
    ELSE Enumerated

GivenOffset == IF ret.opts.offset.on THEN ret.opts.offset.n ELSE 0
GivenLimit == IF ret.opts.limit.on THEN ret.opts.limit.n ELSE DefaultLimit

\* C9: getEntries with a field-equality filter returns exactly the entries whose
\* field equals the given value: every returned entry matches, all of them are
\* returned when no page is cut out, and within a page none that falls inside the
\* page bounds is omitted.
C9_FilterReturnsExactlyMatching ==
    (ret.op = "getEntries" /\ ret.opts.filters.on /\ ret.res.kind = "list") =>
        /\ \A i \in 1..Len(ret.res.entries) :
               FieldsEqual(ret.res.entries[i], ret.opts.filters.f)
        /\ Len(ret.res.entries)
               = Max(0, Min(GivenLimit, Len(Matching) - GivenOffset))
        /\ (~ret.opts.offset.on /\ ~ret.opts.limit.on) => ret.res.entries = Matching

\* a filtered, unpaginated listing of a collection that holds entries that match
\* and entries that do not
C9_Witness ==
    /\ ret.op = "getEntries"
    /\ ret.opts.filters = Filters(PublishedFilter)
    /\ ~ret.opts.offset.on /\ ~ret.opts.limit.on
    /\ ret.res.kind = "list"
    /\ Len(ret.res.entries) >= 2
    /\ Len(ret.res.entries) < Len(Enumerated)

\* C10: with no sort, getEntries returns exactly the elements at positions
\* offset .. offset+limit-1 of the filtered sequence in enumeration order (offset
\* defaults to 0, limit to 1000), so never more than limit entries and none for
\* limit 0.
C10_PageIsOffsetThenLimit ==
    (ret.op = "getEntries" /\ ret.res.kind = "list") =>
        /\ Len(ret.res.entries) = Max(0, Min(GivenLimit, Len(Matching) - GivenOffset))
        /\ \A i \in 1..Len(ret.res.entries) :
               ret.res.entries[i] = Matching[GivenOffset + i]
        /\ Len(ret.res.entries) <= GivenLimit
        /\ ret.res.limit = GivenLimit
        /\ ret.res.offset = GivenOffset

\* limit 2 with offset 1 over three filtered entries returns the 2nd and the 3rd
C10_Witness ==
    /\ ret.op = "getEntries"
    /\ ret.opts.offset = Given(1)
    /\ ret.opts.limit = Given(2)
    /\ ret.res.kind = "list"
    /\ Len(Matching) = 3
    /\ Matching[2] # Matching[3]
    /\ ret.res.entries = <<Matching[2], Matching[3]>>

\* C11: the count getEntries returns is present only when includeCount was
\* requested, and whenever it is requested it is the number of entries that match
\* the filter, counted before offset and limit, 0 for a collection that has no
\* entries or no directory.
C11_CountIsMatchingTotal ==
    (ret.op = "getEntries" /\ ret.res.kind = "list") =>
        /\ ret.res.count.on <=> ret.opts.includeCount
        /\ ret.opts.includeCount => ret.res.count = Given(Len(Matching))

\* the same for the calls that find the directory of the collection
C11_CountWhenDirectoryExists ==
    (ret.op = "getEntries" /\ ret.res.kind = "list" /\ ret.col \in dirs) =>
        /\ ret.res.count.on <=> ret.opts.includeCount
        /\ ret.opts.includeCount => ret.res.count = Given(Len(Matching))

----------------------------------------------------------------------------
(* SpecSort: getEntries with sort keys, filters and pagination over a         *)
(* collection of entries with a rank and a creation date                      *)

\* entries to sort: SortA and SortB are created at the same instant, written in
\* two time zones; SortC is created before them although its string sorts after
\* theirs; SortD has a null date and no rank; rank 10 is above rank 2 as a number
\* and below it as a string
SortA == [status |-> Str("published"), rank |-> Num(2),
          createdAt |-> Str("2023-12-31T23:00:00Z")]
SortB == [status |-> Str("draft"), rank |-> Num(10),
          createdAt |-> Str("2024-01-01T00:00:00+01:00")]
SortC == [status |-> Str("published"), rank |-> Num(2),
          createdAt |-> Str("2024-01-01T00:00:00+03:00")]
SortD == [status |-> Str("published"), createdAt |-> JsonNull]
SortE == [status |-> Str("published"), rank |-> Num(1),
          createdAt |-> Str("2024-01-02T00:00:00Z")]
SortPayloads == {SortA, SortB, SortC, SortD, SortE}

Directions == {"asc", "desc"}
\* the sort options of the calls: none, one key, or rank and createdAt in either order
SortLists ==
    {<<>>}
    \cup {<<<<k, d>>>> : k \in {"rank", "createdAt", "status"}, d \in Directions}
    \cup {<<<<"rank", d1>>, <<"createdAt", d2>>>> : d1 \in Directions, d2 \in Directions}
    \cup {<<<<"createdAt", d1>>, <<"rank", d2>>>> : d1 \in Directions, d2 \in Directions}

SortOptions ==
    [filters : {NotGiven, Filters(PublishedFilter)},
     offset : {NotGiven, Given(1)},
     limit : {NotGiven, Given(2)},
     include : {<<>>},
     includeCount : {FALSE},
     sort : SortLists]

NextSort ==
    \/ \E id \in Ids, d \in SortPayloads : SetEntryCall("posts", id, d)
    \/ \E id \in Ids : DeleteEntryCall("posts", id)
    \/ \E opts \in SortOptions : GetEntriesCall("posts", opts)
    \/ Return

SpecSort == InitQuery /\ [][NextSort]_vars

\* the page of the last getEntries call before it is sorted: the filtered entries
\* at positions offset .. offset+limit-1 of the enumeration
UnsortedPage ==
    [i \in 1..Max(0, Min(GivenLimit, Len(Matching) - GivenOffset)) |->
        Matching[GivenOffset + i]]

\* is the value of a sort field null or undefined, and if it is not, the number it
\* stands for: a number itself, the instant of a date string
HasNoValue(e, key) == key \notin DOMAIN e \/ e[key].t \in {"null", "undefined"}
Magnitude(e, key) == IF e[key].t = "num" THEN e[key].n ELSE DateTimes[e[key].v]

\* x may stand directly before y in a sequence ordered by [key, direction]
InOrder(x, y, key, direction) ==
    IF direction = "asc"
    THEN /\ HasNoValue(y, key) => HasNoValue(x, key)
         /\ (~HasNoValue(x, key) /\ ~HasNoValue(y, key))
                => Magnitude(x, key) <= Magnitude(y, key)
    ELSE /\ HasNoValue(x, key) => HasNoValue(y, key)
         /\ (~HasNoValue(x, key) /\ ~HasNoValue(y, key))
                => Magnitude(x, key) >= Magnitude(y, key)

\* s and t hold the same entries the same number of times
SameEntries(s, t) ==
    /\ Len(s) = Len(t)
    /\ \A e \in {s[i] : i \in 1..Len(s)} \cup {t[i] : i \in 1..Len(t)} :
           Cardinality({i \in 1..Len(s) : s[i] = e})
               = Cardinality({i \in 1..Len(t) : t[i] = e})

\* C12: getEntries with a single sort key on numbers or ISO date strings returns
\* its entries ordered by that key: "desc" non-increasing with null/undefined
\* last, "asc" non-decreasing with null/undefined first.
C12_SingleKeySorted ==
    (/\ ret.op = "getEntries"
     /\ ret.res.kind = "list"
     /\ Len(SortOption(ret.opts)) = 1
     /\ SortOption(ret.opts)[1][1] \in {"rank", "createdAt"}) =>
        /\ \A i \in 1..(Len(ret.res.entries) - 1) :
               InOrder(ret.res.entries[i], ret.res.entries[i + 1],
                       SortOption(ret.opts)[1][1], SortOption(ret.opts)[1][2])
        /\ SameEntries(ret.res.entries, UnsortedPage)

\* three entries listed by descending date: the sort moved them, the date that
\* is later as an instant comes before the one that is later as a string, and the
\* entry with the null date is last
C12_Witness ==
    /\ ret.op = "getEntries"
    /\ ret.res.kind = "list"
    /\ SortOption(ret.opts) = <<<<"createdAt", "desc">>>>
    /\ ret.res.entries = <<SortA, SortC, SortD>>
    /\ UnsortedPage = <<SortD, SortC, SortA>>

\* C19: getEntries filters, then paginates, then sorts: the entries returned are
\* those that offset and limit cut out of the filtered sequence in enumeration
\* order, in that order when no sort is given; sorting only reorders them and
\* never changes which entries are in the page.
C19_SortReordersThePage ==
    (ret.op = "getEntries" /\ ret.res.kind = "list") =>
        /\ SameEntries(ret.res.entries, UnsortedPage)
        /\ \A i \in 1..Len(ret.res.entries) :
               \E j \in 1..Len(Matching) :
                   /\ j > GivenOffset
                   /\ j <= GivenOffset + GivenLimit
                   /\ ret.res.entries[i] = Matching[j]
        /\ SortOption(ret.opts) = <<>> => ret.res.entries = UnsortedPage

\* limit 2 and ascending rank over ranks 10, 2, 1 in enumeration order: the call
\* returns ranks 2 and 10, not the two lowest ranks of the collection
C19_Witness ==
    /\ ret.op = "getEntries"
    /\ ret.res.kind = "list"
    /\ ret.opts.limit = Given(2)
    /\ ~ret.opts.offset.on
    /\ SortOption(ret.opts) = <<<<"rank", "asc">>>>
    /\ Matching = <<SortB, SortA, SortE>>
    /\ ret.res.entries = <<SortA, SortB>>

\* x and y have the same value of the sort field, or both have none
EqualOn(x, y, key) ==
    \/ HasNoValue(x, key) /\ HasNoValue(y, key)
    \/ /\ ~HasNoValue(x, key) /\ ~HasNoValue(y, key)
       /\ Magnitude(x, key) = Magnitude(y, key)

\* C20: with two sort keys [[k1, d1], [k2, d2]] the result is ordered by the last
\* key k2, and the earlier key k1 orders only the entries that are equal on k2.
C20_LastKeyDominates ==
    (/\ ret.op = "getEntries"
     /\ ret.res.kind = "list"
     /\ Len(SortOption(ret.opts)) = 2) =>
        LET first == SortOption(ret.opts)[1]
            last == SortOption(ret.opts)[2]
        IN /\ SameEntries(ret.res.entries, UnsortedPage)
           /\ \A i \in 1..(Len(ret.res.entries) - 1) :
                  LET x == ret.res.entries[i]
                      y == ret.res.entries[i + 1]
                  IN /\ InOrder(x, y, last[1], last[2])
                     /\ EqualOn(x, y, last[1]) => InOrder(x, y, first[1], first[2])

\* sorted by [createdAt asc, rank asc]: rank 1 comes first although it is the
\* latest entry, and the two entries of rank 2 follow by date
C20_Witness ==
    /\ ret.op = "getEntries"
    /\ ret.res.kind = "list"
    /\ SortOption(ret.opts) = <<<<"createdAt", "asc">>, <<"rank", "asc">>>>
    /\ UnsortedPage = <<SortA, SortE, SortC>>
    /\ ret.res.entries = <<SortE, SortC, SortA>>

----------------------------------------------------------------------------
(* SpecConfig: a caller that replaces the registry with setConfig between its *)
(* calls                                                                      *)

\* the names of the collections and globals a caller may declare
ConfigCollections == {"posts", "pages"}
ConfigGlobals == {"site", "footer"}

\* the `collections` or `globals` option: left out, or an array of declarations
\* with names from `names`
RegistryOptions(names) == {NotGiven} \cup {Given(S) : S \in SUBSET names}

\* new Map((option || []).map((c) => [c.name, c])): the names that resolve
NewRegistry(option) == IF option.on THEN option.n ELSE {}

\* SetConfig with the declarations added to the registry instead of replacing it
SetConfigMerging(cs, gs) ==
    /\ ret = Idle
    /\ collections' = collections \cup NewRegistry(cs)
    /\ globals' = globals \cup NewRegistry(gs)
    /\ ret' = [op |-> "setConfig", collections |-> cs, globals |-> gs, res |-> Void]
    /\ UNCHANGED <<dirs, entryFiles, globalFiles, assetFiles, up>>

\* setConfig({collections, globals})
SetConfig(cs, gs) ==
    /\ ret = Idle
    /\ collections' = NewRegistry(cs)
    /\ globals' = NewRegistry(gs)
    /\ ret' = [op |-> "setConfig", collections |-> cs, globals |-> gs, res |-> Void]
    /\ UNCHANGED <<dirs, entryFiles, globalFiles, assetFiles, up>>

\* the state after new LocalApi({collections, globals, contentDir}) over an empty
\* content directory
InitConfig ==
    /\ \E cs \in RegistryOptions(ConfigCollections) : collections = NewRegistry(cs)
    /\ \E gs \in RegistryOptions(ConfigGlobals) : globals = NewRegistry(gs)
    /\ entryFiles = [c \in ConfigCollections |-> [id \in Ids |-> NoFile]]
    /\ globalFiles = [g \in ConfigGlobals |-> NoFile]
    /\ dirs = {}
    /\ assetFiles = NoAssets
    /\ up = NoUploads
    /\ ret = Idle

NextConfig ==
    \/ \E cs \in RegistryOptions(ConfigCollections),
          gs \in RegistryOptions(ConfigGlobals) : SetConfig(cs, gs)
    \/ \E c \in ConfigCollections : SetEntryCall(c, "a", PDraft)
    \/ \E c \in ConfigCollections : GetEntryCall(c, "a", <<>>)
    \/ \E c \in ConfigCollections : DeleteEntryCall(c, "a")
    \/ \E c \in ConfigCollections : GetEntriesCall(c, NoOptions)
    \/ \E g \in ConfigGlobals : SetGlobalValueCall(g, GSite)
    \/ \E g \in ConfigGlobals : GetGlobalValueCall(g)
    \/ Return

SpecConfig == InitConfig /\ [][NextConfig]_vars

\* the names passed in an option of setConfig; none when the option is left out
DeclaredNames(option) == IF option.on THEN option.n ELSE {}

\* after setConfig a name resolves if and only if the call declared it
C14_SetConfigStep ==
    (ret.op = "idle" /\ ret'.op = "setConfig") =>
        /\ \A c \in ConfigCollections :
               GetCollectionRef(collections', c) <=> c \in DeclaredNames(ret'.collections)
        /\ \A g \in ConfigGlobals :
               GetGlobalRef(globals', g) <=> g \in DeclaredNames(ret'.globals)

\* no other call changes the registry
C14_OtherStep == (ret'.op # "setConfig") => UNCHANGED <<collections, globals>>

\* a call raises "not found" exactly for a name that does not resolve
C14_CallsResolve ==
    /\ ret.op \in {"getEntry", "getEntries", "setEntry", "deleteEntry"} =>
           (ret.res = Raise("notfound") <=> ~GetCollectionRef(collections, ret.col))
    /\ ret.op \in {"getGlobalValue", "setGlobalValue"} =>
           (ret.res = Raise("notfound") <=> ~GetGlobalRef(globals, ret.global))

\* C14: setConfig replaces the whole registry: afterwards a collection or global
\* name resolves if and only if the latest call declared it, names registered
\* before and absent from the call no longer resolve, and an option left out
\* leaves that registry empty.
C14_SetConfigReplacesRegistry ==
    /\ []C14_CallsResolve
    /\ [][C14_SetConfigStep /\ C14_OtherStep]_vars

\* setConfig without `collections`, after an entry of "posts" had been written:
\* no collection resolves any more, and only the declared global does
C14_Witness ==
    /\ ret.op = "setConfig"
    /\ ~ret.collections.on
    /\ ret.globals = Given({"footer"})
    /\ collections = {}
    /\ globals = {"footer"}
    /\ FileOf(entryFiles, "posts", "a") # NoFile
    /\ globalFiles["site"] # NoFile

----------------------------------------------------------------------------
(* Asset store *)

\* A filename base-s1-s2...ext: the base, the numeric suffixes appended to it, and
\* the extension (path.extname), so that `${base}-${counter}${ext}` appends a suffix.
Name(base, ext) == [base |-> base, sfx |-> <<>>, ext |-> ext]
WithSuffix(filename, counter) == [filename EXCEPT !.sfx = Append(@, counter)]

\* the bytes process p uploads: p bytes, so that uploads differ in content and size
BytesOf(p) == [raw |-> [i \in 1..p |-> p]]

\* the file contentDir/assets/filename
AssetOf(af, filename) == IF filename \in DOMAIN af THEN af[filename] ELSE NoFile
AssetFile(data) == [kind |-> "file", data |-> data]
ExistingAssets(af) == {f \in DOMAIN af : af[f].kind = "file"}

\* String.prototype.toLowerCase on the strings of the model
ToLowerCase(str) ==
    CASE str = ".PNG" -> ".png"
      [] str = "LOGO" -> "logo"
      [] OTHER -> str

\* the extension table of getContentType
ContentTypes ==
    [x \in {".jpg", ".jpeg"} |-> "image/jpeg"]
    @@ (".png" :> "image/png") @@ (".gif" :> "image/gif")
    @@ (".webp" :> "image/webp") @@ (".avif" :> "image/avif")
    @@ (".svg" :> "image/svg+xml") @@ (".mp4" :> "video/mp4")
    @@ (".webm" :> "video/webm") @@ (".mp3" :> "audio/mpeg")
    @@ (".wav" :> "audio/wav") @@ (".ogg" :> "audio/ogg")
    @@ (".pdf" :> "application/pdf") @@ (".doc" :> "application/msword")
    @@ (".docx" :>
          "application/vnd.openxmlformats-officedocument.wordprocessingml.document")
    @@ (".zip" :> "application/zip") @@ (".rar" :> "application/x-rar-compressed")
    @@ (".json" :> "application/json") @@ (".xml" :> "application/xml")
    @@ (".txt" :> "text/plain")

\* getContentType(filename)
GetContentType(filename) ==
    LET ext == ToLowerCase(filename.ext)
    IN IF ext \in DOMAIN ContentTypes THEN Given(ContentTypes[ext]) ELSE NotGiven

\* contentType?.startsWith("image/")
IsImageType(contentType) ==
    /\ contentType.on
    /\ contentType.n \in {"image/jpeg", "image/png", "image/gif", "image/webp",
                          "image/avif", "image/svg+xml"}

\* the state of an uploadAsset call: not started, at one of its awaits, or returned
NotStarted == [pc |-> "idle"]

\* uploadAsset up to its first await: ensureAssetDir, then the first candidate name
UploadStart(p, filename, contentType) ==
    /\ up[p].pc = "idle"
    /\ dirs' = dirs \cup {"assets"}
    /\ up' = [up EXCEPT ![p] =
                 [pc |-> "check", filename |-> filename, file |-> BytesOf(p),
                  contentType |-> IF contentType.on THEN contentType
                                  ELSE GetContentType(filename),
                  finalFilename |-> filename, counter |-> 1]]
    /\ UNCHANGED <<collections, globals, entryFiles, globalFiles, assetFiles, ret>>

\* one turn of the while loop: fs.access of the candidate name, and the next
\* candidate when it exists
UploadCheck(p) ==
    /\ up[p].pc = "check"
    /\ IF AssetOf(assetFiles, up[p].finalFilename).kind = "file"
       THEN /\ up[p].counter <= MaxCounter
            /\ up' = [up EXCEPT ![p].finalFilename =
                                    WithSuffix(up[p].filename, up[p].counter),
                                ![p].counter = @ + 1]
       ELSE up' = [up EXCEPT ![p].pc = "write"]
    /\ UNCHANGED <<collections, globals, dirs, entryFiles, globalFiles, assetFiles, ret>>

\* UploadTarget with the requested name written instead of the name found free
UploadTargetRequested(u) == u.filename

\* the path uploadAsset writes to
UploadTarget(u) == u.finalFilename

\* fs.writeFile(filePath, file)
UploadWrite(p) ==
    /\ up[p].pc = "write"
    /\ assetFiles' = [assetFiles EXCEPT ![UploadTarget(up[p])] = AssetFile(up[p].file)]
    /\ up' = [up EXCEPT ![p].pc = "stat"]
    /\ UNCHANGED <<collections, globals, dirs, entryFiles, globalFiles, ret>>

\* fs.stat(filePath) and the return of uploadAsset
UploadStat(p) ==
    LET f == AssetOf(assetFiles, up[p].finalFilename)
    IN /\ up[p].pc = "stat"
       /\ up' = [up EXCEPT ![p] =
                    [pc |-> "done", filename |-> up[p].filename, file |-> up[p].file,
                     res |-> IF f.kind = "file"
                             THEN [kind |-> "uploaded",
                                   filename |-> up[p].finalFilename,
                                   size |-> Len(f.data.raw),
                                   contentType |-> up[p].contentType]
                             ELSE Raise("io")]]
       /\ UNCHANGED <<collections, globals, dirs, entryFiles, globalFiles, assetFiles, ret>>

\* no uploadAsset call is between its start and its return
Quiet == \A p \in DOMAIN up : up[p].pc \in {"idle", "done"}

\* the dimensions sharp's metadata() reports for stored bytes
SourceDims == [width |-> 400, height |-> 300]
DimsOf(data) == IF "dims" \in DOMAIN data THEN data.dims ELSE SourceDims

\* the transform options of getAsset when none is given
NoTransform ==
    [width |-> NotGiven, height |-> NotGiven, format |-> NotGiven, quality |-> NotGiven]

\* the bytes transform.toBuffer() yields: resized when a width or height is given,
\* re-encoded when a format is given
Transformed(data, opts) ==
    [raw |-> data.raw,
     dims |-> [width |-> IF opts.width.on THEN opts.width.n ELSE DimsOf(data).width,
               height |-> IF opts.height.on THEN opts.height.n
                          ELSE DimsOf(data).height],
     format |-> opts.format]

\* the steps of getAsset at which the image collaborator can fail ("none": it works)
SharpFailures ==
    {"none", "require", "metadata", "resize", "toFormat", "toBuffer", "newMetadata"}

AssetResult(data, contentType, width, height) ==
    [kind |-> "asset", data |-> data, contentType |-> contentType,
     width |-> width, height |-> height]

\* GetAsset with the content type of a re-encoded image taken from `format`
GetAssetTypeOfFormat(af, filename, opts, failAt) ==
    LET f == AssetOf(af, filename)
        contentType == GetContentType(filename)
        newType == IF opts.format.on THEN Given("image/" \o opts.format.n)
                   ELSE contentType
        wanted == opts.width.on \/ opts.height.on \/ opts.format.on \/ opts.quality.on
        fails == \/ failAt = "resize" /\ (opts.width.on \/ opts.height.on)
                 \/ failAt = "toFormat" /\ opts.format.on
                 \/ failAt = "toBuffer"
    IN IF f.kind # "file" THEN Null
       ELSE IF ~IsImageType(contentType) \/ failAt \in {"require", "metadata"}
       THEN AssetResult(f.data, contentType, NotGiven, NotGiven)
       ELSE IF ~wanted \/ fails
       THEN AssetResult(f.data, contentType, Given(DimsOf(f.data).width),
                        Given(DimsOf(f.data).height))
       ELSE IF failAt = "newMetadata"
       THEN AssetResult(Transformed(f.data, opts), newType,
                        Given(DimsOf(f.data).width), Given(DimsOf(f.data).height))
       ELSE AssetResult(Transformed(f.data, opts), newType,
                        Given(Transformed(f.data, opts).dims.width),
                        Given(Transformed(f.data, opts).dims.height))

\* getAsset(filename, options) when the image collaborator fails at step failAt
GetAsset(af, filename, opts, failAt) ==
    LET f == AssetOf(af, filename)
        contentType == GetContentType(filename)
        wanted == opts.width.on \/ opts.height.on \/ opts.format.on \/ opts.quality.on
        fails == \/ failAt = "resize" /\ (opts.width.on \/ opts.height.on)
                 \/ failAt = "toFormat" /\ opts.format.on
                 \/ failAt = "toBuffer"
    IN IF f.kind # "file" THEN Null
       ELSE IF ~IsImageType(contentType) \/ failAt \in {"require", "metadata"}
       THEN AssetResult(f.data, contentType, NotGiven, NotGiven)
       ELSE IF ~wanted \/ fails
       THEN AssetResult(f.data, contentType, Given(DimsOf(f.data).width),
                        Given(DimsOf(f.data).height))
       ELSE IF failAt = "newMetadata"
       THEN AssetResult(Transformed(f.data, opts), contentType,
                        Given(DimsOf(f.data).width), Given(DimsOf(f.data).height))
       ELSE AssetResult(Transformed(f.data, opts), contentType,
                        Given(Transformed(f.data, opts).dims.width),
                        Given(Transformed(f.data, opts).dims.height))

\* file.toLowerCase().includes(search.toLowerCase()), for a search term that is
\* the base of a filename
IncludesSearch(filename, search) == ToLowerCase(filename.base) = ToLowerCase(search)

\* IndexOf giving the position before the name, so that the listing resumes at
\* the name itself
IndexOfBefore(files, name) ==
    IF \E i \in 1..Len(files) : files[i] = name
    THEN (CHOOSE i \in 1..Len(files) :
             files[i] = name /\ \A j \in 1..(i - 1) : files[j] # name) - 1
    ELSE 0

\* files.indexOf(startAfter): the position in the sequence, 0 when absent
IndexOf(files, name) ==
    IF \E i \in 1..Len(files) : files[i] = name
    THEN CHOOSE i \in 1..Len(files) :
            files[i] = name /\ \A j \in 1..(i - 1) : files[j] # name
    ELSE 0

\* the Asset object listAssets builds for a file
AssetEntry(af, filename, sharpWorks) ==
    [name |-> filename, key |-> filename,
     size |-> Len(af[filename].data.raw),
     metadata |-> IF IsImageType(GetContentType(filename)) /\ sharpWorks
                  THEN [width |-> Given(DimsOf(af[filename].data).width),
                        height |-> Given(DimsOf(af[filename].data).height)]
                  ELSE [width |-> NotGiven, height |-> NotGiven],
     httpMetadata |-> GetContentType(filename)]

\* listAssets(options) when readdir lists the files in `order`
ListAssets(ds, af, opts, order, sharpWorks) ==
    IF "assets" \notin ds THEN <<>>
    ELSE LET searched == IF opts.search.on
                         THEN SelectSeq(order,
                                        LAMBDA f : IncludesSearch(f, opts.search.n))
                         ELSE order
             index == IF opts.startAfter.on THEN IndexOf(searched, opts.startAfter.n)
                      ELSE 0
             resumed == IF index # 0 THEN Slice(searched, index, Len(searched))
                        ELSE searched
             limited == IF opts.limit.on /\ opts.limit.n # 0
                        THEN Slice(resumed, 0, opts.limit.n)
                        ELSE resumed
         IN [i \in 1..Len(limited) |-> AssetEntry(af, limited[i], sharpWorks)]

\* DeleteAssetOutcome with the failure of unlink passed on to the caller
DeleteAssetOutcomeRaises(af, filename) ==
    IF AssetOf(af, filename).kind = "file"
    THEN [res |-> Bool(TRUE), files |-> [af EXCEPT ![filename] = NoFile]]
    ELSE [res |-> Raise("io"), files |-> af]

\* deleteAsset(filename): its outcome and the files after it
DeleteAssetOutcome(af, filename) ==
    IF AssetOf(af, filename).kind = "file"
    THEN [res |-> Bool(TRUE), files |-> [af EXCEPT ![filename] = NoFile]]
    ELSE [res |-> Bool(FALSE), files |-> af]

GetAssetCall(filename, opts, failAt) ==
    /\ ret = Idle
    /\ ret' = [op |-> "getAsset", filename |-> filename, opts |-> opts,
               failAt |-> failAt, res |-> GetAsset(assetFiles, filename, opts, failAt)]
    /\ UNCHANGED <<collections, globals, dirs, entryFiles, globalFiles, assetFiles, up>>

ListAssetsCall(opts, sharpWorks) ==
    /\ ret = Idle
    /\ \E order \in Perms(ExistingAssets(assetFiles)) :
           ret' = [op |-> "listAssets", opts |-> opts, order |-> order,
                   res |-> [kind |-> "assets",
                            assets |-> ListAssets(dirs, assetFiles, opts, order,
                                                  sharpWorks)]]
    /\ UNCHANGED <<collections, globals, dirs, entryFiles, globalFiles, assetFiles, up>>

DeleteAssetCall(filename) ==
    LET out == DeleteAssetOutcome(assetFiles, filename)
    IN /\ ret = Idle
       /\ assetFiles' = out.files
       /\ ret' = [op |-> "deleteAsset", filename |-> filename, res |-> out.res,
                  before |-> AssetOf(assetFiles, filename)]
       /\ UNCHANGED <<collections, globals, dirs, entryFiles, globalFiles, up>>

----------------------------------------------------------------------------
(* SpecUpload: uploadAsset calls that interleave at their awaits.             *)
(* SpecUploadSeq: the same calls, each started only when no other call is in  *)
(* flight, with deleteAsset and getAsset calls between them.                  *)

Procs == 1..NumUploads
LogoPng == Name("logo", ".png")
\* the names uploads ask for: "logo.png" and "logo-1.png"
UploadNames == {LogoPng, WithSuffix(LogoPng, 1)}
\* the names a file of the assets directory can have in the model
AssetNames ==
    UploadNames \cup {WithSuffix(f, k) : f \in UploadNames, k \in 1..MaxCounter}

InitUpload ==
    /\ collections = {"posts"}
    /\ globals = {"site"}
    /\ entryFiles = [c \in {"posts"} |-> [id \in Ids |-> NoFile]]
    /\ globalFiles = [g \in {"site"} |-> NoFile]
    /\ dirs = {}
    /\ assetFiles = [f \in AssetNames |-> NoFile]
    /\ up = [p \in Procs |-> NotStarted]
    /\ ret = Idle

UploadStep(p) == UploadCheck(p) \/ UploadWrite(p) \/ UploadStat(p)

NextUpload ==
    \/ \E p \in Procs : UploadStart(p, LogoPng, NotGiven)
    \/ \E p \in Procs : UploadStep(p)

SpecUpload == InitUpload /\ [][NextUpload]_vars

NextUploadSeq ==
    \/ \E p \in Procs, f \in UploadNames : Quiet /\ UploadStart(p, f, NotGiven)
    \/ \E p \in Procs : UploadStep(p)
    \/ \E f \in AssetNames : Quiet /\ DeleteAssetCall(f)
    \/ \E f \in AssetNames : Quiet /\ GetAssetCall(f, NoTransform, "none")
    \/ Return

SpecUploadSeq == InitUpload /\ [][NextUploadSeq]_vars

\* call p has returned a filename
Uploaded(p) == up[p].pc = "done" /\ up[p].res.kind = "uploaded"
\* the names under which the bytes of call p are stored
StoredUnder(p) == {f \in ExistingAssets(assetFiles) : assetFiles[f].data = up[p].file}

\* the calls that have returned filename f
ReturnedName(f) == {p \in Procs : Uploaded(p) /\ up[p].res.filename = f}
\* the calls that have written to filename f
WroteTo(f) ==
    {p \in Procs : \/ up[p].pc = "stat" /\ up[p].finalFilename = f
                   \/ Uploaded(p) /\ up[p].res.filename = f}

\* C4: two concurrent uploadAsset calls with the same requested filename can both
\* find the name free and both write to it.  A filename that calls have returned
\* holds the bytes of one call that wrote to it, and of the calls that returned
\* the same filename at most one has its bytes stored anywhere; C4_Witness is the
\* state the claim says is reachable.
C4_SameNameMeansClobbered ==
    \A f \in AssetNames :
        ReturnedName(f) # {} =>
            /\ AssetOf(assetFiles, f).kind = "file"
            /\ \E w \in WroteTo(f) : assetFiles[f].data = up[w].file
            /\ \A p \in ReturnedName(f) : StoredUnder(p) \subseteq {f}
            /\ Cardinality({p \in ReturnedName(f) : StoredUnder(p) # {}}) <= 1

\* two calls asked for the same name, both returned it, one's bytes are gone
C4_Witness ==
    \E p, q \in Procs :
        /\ p # q /\ Uploaded(p) /\ Uploaded(q)
        /\ up[p].filename = up[q].filename
        /\ up[p].res.filename = up[q].res.filename
        /\ StoredUnder(p) = {}
        /\ StoredUnder(q) = {up[q].res.filename}

\* the first free name for a requested filename: the name itself, else the first
\* free one among base-1.ext, base-2.ext, ...
IsFirstFree(af, filename, target) ==
    \/ target = filename /\ AssetOf(af, filename) = NoFile
    \/ /\ AssetOf(af, filename) # NoFile
       /\ \E k \in 1..MaxCounter :
              /\ target = WithSuffix(filename, k)
              /\ AssetOf(af, target) = NoFile
              /\ \A j \in 1..(k - 1) : AssetOf(af, WithSuffix(filename, j)) # NoFile

\* the write of call p: to the first free name, which did not exist, and to no other
C5_WriteStep(p) ==
    (up[p].pc = "write" /\ up'[p].pc = "stat") =>
        /\ \E target \in AssetNames :
              /\ IsFirstFree(assetFiles, up[p].filename, target)
              /\ assetFiles'[target] = AssetFile(up[p].file)
              /\ \A f \in AssetNames \ {target} : assetFiles'[f] = assetFiles[f]

\* the return of call p: the name written, under which getAsset yields its bytes
C5_ReturnStep(p) ==
    (up[p].pc = "stat" /\ up'[p].pc = "done") =>
        /\ up'[p].res.kind = "uploaded"
        /\ \A failAt \in SharpFailures :
              LET got == GetAsset(assetFiles', up'[p].res.filename, NoTransform, failAt)
              IN got # Null /\ got.data = up[p].file

\* C5: uploadAsset calls that do not overlap never overwrite an asset: each stores
\* its bytes under the requested name if free, else under the first free name
\* base-1.ext, base-2.ext, ..., which did not exist before; every other asset
\* keeps its bytes and getAsset of the returned filename yields the call's bytes.
C5_SequentialUploadsNeverOverwrite ==
    [][\A p \in Procs : C5_WriteStep(p) /\ C5_ReturnStep(p)]_vars

\* the second upload of "logo.png" has returned "logo-1.png" and both are stored
C5_Witness ==
    \E p, q \in Procs :
        /\ p # q /\ Uploaded(p) /\ Uploaded(q)
        /\ up[p].filename = LogoPng /\ up[q].filename = LogoPng
        /\ up[p].res.filename = LogoPng
        /\ up[q].res.filename = WithSuffix(LogoPng, 1)
        /\ StoredUnder(p) = {LogoPng}
        /\ StoredUnder(q) = {WithSuffix(LogoPng, 1)}

----------------------------------------------------------------------------
(* SpecAll: one caller using the three stores in turn, from an empty content  *)
(* directory                                                                  *)

\* listAssets called without options
NoListOptions == [search |-> NotGiven, startAfter |-> NotGiven, limit |-> NotGiven]

NextAll ==
    \/ Quiet /\ SetEntryCall("posts", "a", PDraft)
    \/ Quiet /\ DeleteEntryCall("posts", "a")
    \/ \E id \in {"a", "b"} : Quiet /\ GetEntryCall("posts", id, <<>>)
    \/ Quiet /\ GetEntriesCall("posts", NoOptions)
    \/ Quiet /\ SetGlobalValueCall("site", GSite)
    \/ Quiet /\ GetGlobalValueCall("site")
    \/ \E p \in Procs : Quiet /\ UploadStart(p, LogoPng, NotGiven)
    \/ \E p \in Procs : UploadStep(p)
    \/ \E f \in {LogoPng, WithSuffix(LogoPng, 1)} :
           Quiet /\ GetAssetCall(f, NoTransform, "none")
    \/ \E f \in {LogoPng, WithSuffix(LogoPng, 1)} : Quiet /\ DeleteAssetCall(f)
    \/ Quiet /\ ListAssetsCall(NoListOptions, TRUE)
    \/ Return

SpecAll == InitUpload /\ [][NextAll]_vars

\* C8: missing content is never an error: getEntry of an id with no file and
\* getGlobalValue with no file return null, getAsset of a missing filename returns
\* null, deleteAsset of a missing filename returns false, listAssets with no assets
\* directory and getEntries with no collection directory return an empty list.
C8_MissingContentIsNoError ==
    /\ (/\ ret.op = "getEntry"
        /\ ret.col \in collections
        /\ FileOf(entryFiles, ret.col, ret.id) = NoFile) => ret.res = Null
    /\ (/\ ret.op = "getGlobalValue"
        /\ ret.global \in globals
        /\ globalFiles[ret.global] = NoFile) => ret.res = Null
    /\ (/\ ret.op = "getAsset"
        /\ AssetOf(assetFiles, ret.filename) = NoFile) => ret.res = Null
    /\ (/\ ret.op = "deleteAsset"
        /\ ret.before = NoFile) => ret.res = Bool(FALSE)
    /\ (/\ ret.op = "listAssets"
        /\ "assets" \notin dirs) => ret.res.assets = <<>>
    /\ (/\ ret.op = "getEntries"
        /\ ret.col \in collections
        /\ ret.col \notin dirs) => (ret.res.kind = "list" /\ ret.res.entries = <<>>)

\* deleteAsset of a filename that is missing from an assets directory holding
\* another file
C8_Witness ==
    /\ ret.op = "deleteAsset"
    /\ ret.before = NoFile
    /\ ret.res = Bool(FALSE)
    /\ ExistingAssets(assetFiles) # {}

----------------------------------------------------------------------------
(* SpecAssets: a caller listing, reading and deleting the assets found in the *)
(* assets directory                                                           *)

\* the files of the assets directory: two whose names contain "logo" in different
\* case, another image, and a file that is no image
ListedNames ==
    {Name("logo", ".png"), Name("LOGO", ".PNG"), Name("photo", ".jpg"),
     Name("notes", ".txt"), Name("data", ".bin")}

ListOptions ==
    [search : {NotGiven, Given("logo")},
     startAfter : {NotGiven} \cup {Given(f) : f \in ListedNames},
     limit : {NotGiven, Given(0), Given(1), Given(2)}]

\* the transform options of the getAsset calls: a width, a format, both or none
TransformOptions ==
    [width : {NotGiven, Given(100)}, height : {NotGiven},
     format : {NotGiven, Given("webp")}, quality : {NotGiven}]

InitAssets ==
    /\ collections = {"posts"}
    /\ globals = {"site"}
    /\ entryFiles = [c \in {"posts"} |-> [id \in Ids |-> NoFile]]
    /\ globalFiles = [g \in {"site"} |-> NoFile]
    /\ assetFiles \in [ListedNames -> {NoFile, AssetFile(BytesOf(2))}]
    /\ dirs = {d \in {"assets"} : ExistingAssets(assetFiles) # {}}
    /\ up = NoUploads
    /\ ret = Idle

NextAssets ==
    \/ \E opts \in ListOptions, sharpWorks \in BOOLEAN : ListAssetsCall(opts, sharpWorks)
    \/ \E f \in ListedNames, opts \in TransformOptions, failAt \in SharpFailures :
           GetAssetCall(f, opts, failAt)
    \/ \E f \in ListedNames : DeleteAssetCall(f)
    \/ Return

SpecAssets == InitAssets /\ [][NextAssets]_vars

\* the filenames of the last listAssets call: as readdir listed them and passed by
\* the search filter, and as returned
Searched ==
    IF ret.opts.search.on
    THEN SelectSeq(ret.order,
                   LAMBDA f : ToLowerCase(f.base) = ToLowerCase(ret.opts.search.n))
    ELSE ret.order
ReturnedNames == [i \in 1..Len(ret.res.assets) |-> ret.res.assets[i].key]

\* C17: listAssets with startAfter = s, when s is in the listing after the search
\* filter, returns no filename at or before s and starts with the filename that
\* follows s in that listing; with limit 1 it returns exactly that filename.  The
\* search filter is applied before the cursor and the cursor before the limit.
C17_ResumesAfterCursor ==
    (ret.op = "listAssets" /\ ret.opts.startAfter.on) =>
        \A k \in 1..Len(Searched) :
            Searched[k] = ret.opts.startAfter.n =>
                /\ \A i \in 1..Len(ReturnedNames) :
                       \E j \in (k + 1)..Len(Searched) : ReturnedNames[i] = Searched[j]
                /\ k < Len(Searched) =>
                       /\ Len(ReturnedNames) >= 1
                       /\ ReturnedNames[1] = Searched[k + 1]
                /\ k = Len(Searched) => ReturnedNames = <<>>
                /\ (ret.opts.limit = Given(1) /\ k < Len(Searched))
                       => ReturnedNames = <<Searched[k + 1]>>

\* search "logo", cursor logo.png, limit 1, with photo.jpg listed between
\* logo.png and LOGO.PNG and a file listed before the cursor: the call returns
\* LOGO.PNG alone
C17_Witness ==
    /\ ret.op = "listAssets"
    /\ ret.opts.search = Given("logo")
    /\ ret.opts.startAfter = Given(Name("logo", ".png"))
    /\ ret.opts.limit = Given(1)
    /\ ret.order = <<Name("notes", ".txt"), Name("logo", ".png"),
                     Name("photo", ".jpg"), Name("LOGO", ".PNG")>>
    /\ ReturnedNames = <<Name("LOGO", ".PNG")>>

\* the image collaborator is called at step failAt by a getAsset with these options
StepIsTaken(opts, failAt) ==
    \/ failAt \in {"require", "metadata"}
    \/ failAt = "resize" /\ (opts.width.on \/ opts.height.on)
    \/ failAt = "toFormat" /\ opts.format.on
    \/ /\ failAt \in {"toBuffer", "newMetadata"}
       /\ (opts.width.on \/ opts.height.on \/ opts.format.on \/ opts.quality.on)

\* getAsset returns null exactly for a file it cannot read
C18_NullOnlyWhenUnreadable ==
    ret.op = "getAsset" =>
        (ret.res = Null <=> AssetOf(assetFiles, ret.filename).kind # "file")

\* a failure of the collaborator before it has encoded the result yields the
\* original bytes
C18_EarlyFailureYieldsOriginal ==
    (/\ ret.op = "getAsset"
     /\ AssetOf(assetFiles, ret.filename).kind = "file"
     /\ IsImageType(GetContentType(ret.filename))
     /\ ret.failAt # "newMetadata"
     /\ StepIsTaken(ret.opts, ret.failAt)) =>
        ret.res.data = assetFiles[ret.filename].data

\* C18: getAsset never fails because of image processing: for an existing image
\* file, when the collaborator is unavailable or throws at any step, getAsset
\* returns a non-null result whose data is the original bytes of the file; it
\* returns null only when the file cannot be read.
C18_SharpFailureYieldsOriginal ==
    /\ C18_NullOnlyWhenUnreadable
    /\ (/\ ret.op = "getAsset"
        /\ AssetOf(assetFiles, ret.filename).kind = "file"
        /\ IsImageType(GetContentType(ret.filename))
        /\ ret.failAt # "none"
        /\ StepIsTaken(ret.opts, ret.failAt)) =>
           /\ ret.res # Null
           /\ ret.res.data = assetFiles[ret.filename].data

----------------------------------------------------------------------------
(* Concurrent entry calls.  fs.writeFile is not one file operation: it opens  *)
(* the path with flag "w", which creates or truncates the file, and then      *)
(* writes the text from position 0 of its own file descriptor; another call's *)
(* operations can run between the two.                                        *)

\* the number of characters of the strings of the model
StringLength ==
    ("status" :> 6) @@ ("draft" :> 5) @@ ("published" :> 9) @@ ("title" :> 5)
    @@ ("Home" :> 4)

\* the length of JSON.stringify(value) for a string, a number below 10, or null
ValueLength(v) ==
    CASE v.t = "str" -> StringLength[v.v] + 2
      [] v.t = "num" -> 1
      [] v.t = "null" -> 4

RECURSIVE FieldsLength(_, _)
\* the length of the lines `    "key": value,` of the fields `keys` of an object
FieldsLength(obj, keys) ==
    IF keys = {} THEN 0
    ELSE LET k == CHOOSE k \in keys : TRUE
         IN (4 + StringLength[k] + 2 + 2 + ValueLength(obj[k]) + 1)
                + (IF keys = {k} THEN 0 ELSE 1)
                + FieldsLength(obj, keys \ {k})

\* the text of a file that was truncated, and of one in which a shorter text was
\* written over the beginning of a longer one: a JSON document followed by the
\* tail of another, which JSON.parse rejects
EmptyText == [valid |-> FALSE, size |-> 0]
TornText(size) == [valid |-> FALSE, size |-> size]

\* the length of a file text; JSON.stringify({ data }, null, 2) is the lines of the
\* fields of data inside `{\n  "data": {\n` and `  }\n}`
TextLength(text) ==
    IF text.valid
    THEN 2 + 12 + FieldsLength(text.doc["data"], DOMAIN text.doc["data"]) + 4 + 1
    ELSE IF "size" \in DOMAIN text THEN text.size ELSE 0

\* the file after `text` is written at position 0 of an open file holding `old`
WriteAtStart(old, text) ==
    IF TextLength(text) >= TextLength(old) THEN text ELSE TornText(TextLength(old))

\* setEntry up to its first await: getCollectionRef, then mkdir is requested
SetEntryStart(p, c, id, d) ==
    /\ up[p].pc = "idle"
    /\ up' = [up EXCEPT ![p] =
                 IF GetCollectionRef(collections, c)
                 THEN [pc |-> "mkdir", op |-> "setEntry", col |-> c, id |-> id,
                       data |-> d]
                 ELSE [pc |-> "done", op |-> "setEntry", col |-> c, id |-> id,
                       data |-> d, res |-> Raise("notfound")]]
    /\ UNCHANGED <<collections, globals, dirs, entryFiles, globalFiles, assetFiles, ret>>

\* fs.mkdir completes; the payload is validated and writeFile is requested
SetEntryMkdir(p) ==
    /\ up[p].pc = "mkdir"
    /\ dirs' = dirs \cup {up[p].col}
    /\ up' = [up EXCEPT ![p] =
                 IF Validate(collections, up[p].data)
                 THEN [up[p] EXCEPT !.pc = "open"]
                 ELSE [pc |-> "done", op |-> "setEntry", col |-> up[p].col,
                       id |-> up[p].id, data |-> up[p].data,
                       res |-> Raise("validation")]]
    /\ UNCHANGED <<collections, globals, entryFiles, globalFiles, assetFiles, ret>>

\* fs.writeFile opens the path: the file is created, or truncated
SetEntryOpen(p) ==
    LET f == FileOf(entryFiles, up[p].col, up[p].id)
    IN /\ up[p].pc = "open"
       /\ IF f.kind = "file" /\ ~f.readable
          THEN /\ up' = [up EXCEPT ![p] =
                            [pc |-> "done", op |-> "setEntry", col |-> up[p].col,
                             id |-> up[p].id, data |-> up[p].data,
                             res |-> Raise("io")]]
               /\ UNCHANGED entryFiles
          ELSE /\ up' = [up EXCEPT ![p].pc = "write"]
               /\ entryFiles' =
                      [entryFiles EXCEPT ![up[p].col][up[p].id] = File(EmptyText)]
       /\ globalFiles' = GlobalFilesGiven(globalFiles, entryFiles')
       /\ UNCHANGED <<collections, globals, dirs, assetFiles, ret>>

\* fs.writeFile writes the text and setEntry returns; when the path was unlinked
\* since the open, the text goes to the unlinked file
SetEntryWrite(p) ==
    LET f == FileOf(entryFiles, up[p].col, up[p].id)
    IN /\ up[p].pc = "write"
       /\ entryFiles' =
              IF f = NoFile THEN entryFiles
              ELSE [entryFiles EXCEPT ![up[p].col][up[p].id] =
                       File(WriteAtStart(f.text, EntryFileText(up[p].data)))]
       /\ up' = [up EXCEPT ![p] =
                    [pc |-> "done", op |-> "setEntry", col |-> up[p].col,
                     id |-> up[p].id, data |-> up[p].data, res |-> Void]]
       /\ globalFiles' = GlobalFilesGiven(globalFiles, entryFiles')
       /\ UNCHANGED <<collections, globals, dirs, assetFiles, ret>>

SetEntryStep(p) == SetEntryMkdir(p) \/ SetEntryOpen(p) \/ SetEntryWrite(p)

\* SpecWrite: two setEntry calls in flight at once, and a caller reading entries
Writers == {"w1", "w2"}
WritePayloads == {PDraft, PPublished}
WriteIds == {"a", "b"}

InitWrite ==
    /\ collections = {"posts"}
    /\ globals = {"site"}
    /\ entryFiles = [c \in {"posts"} |-> [id \in Ids |-> NoFile]]
    /\ globalFiles = [g \in {"site"} |-> NoFile]
    /\ dirs = {}
    /\ assetFiles = NoAssets
    /\ up = [p \in Writers |-> NotStarted]
    /\ ret = Idle

NextWrite ==
    \/ \E p \in Writers, id \in WriteIds, d \in WritePayloads :
           SetEntryStart(p, "posts", id, d)
    \/ \E p \in Writers : SetEntryStep(p)
    \/ \E id \in WriteIds : GetEntryCall("posts", id, <<>>)
    \/ Return

SpecWrite == InitWrite /\ [][NextWrite]_vars

\* a valid setEntry call that has returned has completed
C15_BothComplete ==
    \A p \in Writers : up[p].pc = "done" => up[p].res = Void

\* when the write of one call completes after the other call on the same entry has
\* returned, getEntry returns the payload of the call that wrote last
C15_LastWriteStep ==
    \A p, q \in Writers :
        (/\ p # q
         /\ up[p].pc = "write" /\ up'[p].pc = "done"
         /\ up[q].pc = "done" /\ up[q].res = Void
         /\ up[q].col = up[p].col /\ up[q].id = up[p].id)
            => LET r == GetEntry(collections', entryFiles', up[p].col, up[p].id, <<>>)
               IN r.kind = "value" /\ DeepEqual(r.v, up[p].data)

\* C15: two valid setEntry calls for the same collection and id that run
\* concurrently both complete, and getEntry afterwards returns exactly the payload
\* of the call whose file write completed last, never a mixture and never null.
C15_LastWriteWins == []C15_BothComplete /\ [][C15_LastWriteStep]_vars

----------------------------------------------------------------------------
(* SpecScan: a getEntries call that yields at its awaits (fs.access,          *)
(* fs.readdir, one fs.readFile per enumerated file) while a setEntry call and *)
(* deleteEntry calls work on the same collection                              *)

\* a getEntries call that has returned
ScanDone(c, opts, got, res) ==
    [pc |-> "done", op |-> "getEntries", col |-> c, opts |-> opts, got |-> got,
     res |-> res]

\* no entry read yet
NothingRead == [id \in {} |-> Undefined]

\* getEntries up to its first await: getCollectionRef, then fs.access is requested
GetEntriesStart(p, c, opts) ==
    /\ up[p].pc = "idle"
    /\ up' = [up EXCEPT ![p] =
                 IF GetCollectionRef(collections, c)
                 THEN [pc |-> "access", op |-> "getEntries", col |-> c, opts |-> opts]
                 ELSE ScanDone(c, opts, NothingRead, Raise("notfound"))]
    /\ UNCHANGED <<collections, globals, dirs, entryFiles, globalFiles, assetFiles, ret>>

\* fs.access(dir): without the directory the call returns an empty list
GetEntriesAccess(p) ==
    /\ up[p].pc = "access"
    /\ up' = [up EXCEPT ![p] =
                 IF up[p].col \in dirs
                 THEN [up[p] EXCEPT !.pc = "readdir"]
                 ELSE ScanDone(up[p].col, up[p].opts, NothingRead,
                               List(<<>>,
                                    IF up[p].opts.limit.on THEN up[p].opts.limit.n
                                    ELSE DefaultLimit,
                                    IF up[p].opts.offset.on THEN up[p].opts.offset.n
                                    ELSE 0,
                                    NotGiven))]
    /\ UNCHANGED <<collections, globals, dirs, entryFiles, globalFiles, assetFiles, ret>>

\* fs.readdir(dir): the *.json files there are now, in some order; one read per
\* file is requested
GetEntriesReaddir(p) ==
    /\ up[p].pc = "readdir"
    /\ \E order \in Perms(ExistingIds(entryFiles, up[p].col)) :
           up' = [up EXCEPT ![p] =
                     [pc |-> "read", op |-> "getEntries", col |-> up[p].col,
                      opts |-> up[p].opts, order |-> order,
                      pending |-> ExistingIds(entryFiles, up[p].col),
                      got |-> NothingRead]]
    /\ UNCHANGED <<collections, globals, dirs, entryFiles, globalFiles, assetFiles, ret>>

\* one of the reads of Promise.all: fs.readFile and JSON.parse of the file as it is
\* now; a failure rejects Promise.all and with it the call
GetEntriesRead(p, id) ==
    LET r == ReadEntry(FileOf(entryFiles, up[p].col, id))
    IN /\ up[p].pc = "read"
       /\ id \in up[p].pending
       /\ up' = [up EXCEPT ![p] =
                    IF r.ok
                    THEN [up[p] EXCEPT !.pending = @ \ {id},
                                       !.got = (id :> r.entry) @@ @]
                    ELSE ScanDone(up[p].col, up[p].opts, up[p].got, Raise("io"))]
       /\ UNCHANGED <<collections, globals, dirs, entryFiles, globalFiles, assetFiles,
                      ret>>

\* Promise.all resolves: the rest of getEntries runs without an await
GetEntriesFinish(p) ==
    /\ up[p].pc = "read"
    /\ up[p].pending = {}
    /\ up' = [up EXCEPT ![p] =
                 ScanDone(up[p].col, up[p].opts, up[p].got,
                          Listing(collections, entryFiles,
                                  [i \in 1..Len(up[p].order) |->
                                      up[p].got[up[p].order[i]]],
                                  up[p].opts))]
    /\ UNCHANGED <<collections, globals, dirs, entryFiles, globalFiles, assetFiles, ret>>

GetEntriesStep(p) ==
    \/ GetEntriesAccess(p)
    \/ GetEntriesReaddir(p)
    \/ \E id \in Ids : GetEntriesRead(p, id)
    \/ GetEntriesFinish(p)

\* the entry files found at start: none, or entries written earlier
InitScan ==
    /\ collections = {"posts"}
    /\ globals = {"site"}
    /\ entryFiles \in [{"posts"} -> [Ids -> {NoFile, File(EntryFileText(PDraft))}]]
    /\ globalFiles = [g \in {"site"} |-> NoFile]
    /\ dirs = {c \in {"posts"} : ExistingIds(entryFiles, c) # {}}
    /\ assetFiles = NoAssets
    /\ up = [p \in {"scan", "w1"} |-> NotStarted]
    /\ ret = Idle

NextScan ==
    \/ GetEntriesStart("scan", "posts", NoOptions)
    \/ GetEntriesStep("scan")
    \/ \E id \in WriteIds, d \in WritePayloads : SetEntryStart("w1", "posts", id, d)
    \/ SetEntryStep("w1")
    \/ \E id \in Ids : DeleteEntryCall("posts", id)
    \/ Return

SpecScan == InitScan /\ [][NextScan]_vars

\* the getEntries call has returned a list, each entry of which it read from a file
C16_ScanReturnsList ==
    up["scan"].pc = "done" =>
        /\ up["scan"].res.kind = "list"
        /\ \A i \in 1..Len(up["scan"].res.entries) :
               \E id \in DOMAIN up["scan"].got :
                   up["scan"].res.entries[i] = up["scan"].got[id]

\* what the call reads for an id is the entry persisted under that id at that moment
C16_ReadStep ==
    \A id \in Ids :
        (/\ up["scan"].pc = "read" /\ up'["scan"].pc = "read"
         /\ id \in up["scan"].pending /\ id \notin up'["scan"].pending)
            => /\ IsParseable(FileOf(entryFiles, up["scan"].col, id))
               /\ up'["scan"].got[id]
                      = StoredEntry(FileOf(entryFiles, up["scan"].col, id))

\* C16: a getEntries call that runs concurrently with setEntry or deleteEntry on
\* the same collection always completes with a result: a write or delete landing
\* between the enumeration and the reads never makes it raise, and each returned
\* entry is a value that was persisted under its id at some moment during the call.
C16_ScanNeverRaises == []C16_ScanReturnsList /\ [][C16_ReadStep]_vars

----------------------------------------------------------------------------
(* SpecInclude: entries of "posts" that reference each other, read with and   *)
(* without `include`                                                          *)

InitInclude ==
    /\ collections = {"posts"}
    /\ globals = {"site"}
    /\ entryFiles = [c \in {"posts"} |-> [id \in Ids |-> NoFile]]
    /\ globalFiles = [g \in {"site"} |-> NoFile]
    /\ dirs = {}
    /\ assetFiles = NoAssets
    /\ up = NoUploads
    /\ ret = Idle

NextInclude ==
    \* payloads without a reference, with a reference to "a" and with one to "b"
    \/ \E id \in Ids, d \in {PDraft, PWithAuthor, PAuthorB} : SetEntryCall("posts", id, d)
    \/ \E id \in Ids : DeleteEntryCall("posts", id)
    \/ \E id \in Ids, inc \in Includes : GetEntryCall("posts", id, inc)
    \/ \E opts \in PlainOptions : GetEntriesCall("posts", opts)
    \/ Return

SpecInclude == InitInclude /\ [][NextInclude]_vars

\* what a reference stands for: the referenced entry as stored, or null
Referenced(ref) ==
    LET f == FileOf(entryFiles, ref.collection, ref.id)
    IN IF IsParseable(f) THEN Val(StoredEntry(f)) ELSE Null

\* entry e with each reference field `include` names given its `entry` attribute
ResolvedOnce(e, include) ==
    [k \in DOMAIN e |->
        IF e[k].t = "ref" /\ (\E i \in 1..Len(include) : include[i] = k)
        THEN ("entry" :> Referenced(e[k])) @@ e[k]
        ELSE e[k]]

\* no field of an entry attached to a reference has an `entry` attribute itself
NotResolvedFurther(e, include) ==
    \A i \in 1..Len(include) :
        (include[i] \in DOMAIN e /\ "entry" \in DOMAIN e[include[i]]
         /\ e[include[i]]["entry"].kind = "value")
            => \A k \in DOMAIN e[include[i]]["entry"].v :
                   "entry" \notin DOMAIN e[include[i]]["entry"].v[k]

\* getEntry has returned the stored entry with its references resolved once
C21_GetEntryOneLevel ==
    (/\ ret.op = "getEntry"
     /\ ret.col \in collections
     /\ IsParseable(FileOf(entryFiles, ret.col, ret.id)))
        => /\ ret.res = Val(ResolvedOnce(StoredEntry(FileOf(entryFiles, ret.col, ret.id)),
                                         ret.include))
           /\ NotResolvedFurther(ret.res.v, ret.include)

\* getEntries has returned every stored entry with its references resolved once
C21_GetEntriesOneLevel ==
    (ret.op = "getEntries" /\ ret.col \in collections)
        => /\ ret.res.kind = "list"
           /\ Len(ret.res.entries) = Len(ret.order)
           /\ \A i \in 1..Len(ret.order) :
                  /\ ret.res.entries[i]
                         = ResolvedOnce(StoredEntry(FileOf(entryFiles, ret.col,
                                                           ret.order[i])),
                                        ret.opts.include)
                  /\ NotResolvedFurther(ret.res.entries[i], ret.opts.include)

\* C21: reference resolution is exactly one level deep and always terminates: a
\* getEntry or getEntries call with `include` returns a result in which each named
\* field shaped {id, collection} has an `entry` attribute holding the referenced
\* entry as stored (null if there is none), the references of that entry are left
\* unresolved, and this is so also when an entry references itself or entries
\* reference each other in a cycle.
C21_OneLevelResolution == C21_GetEntryOneLevel /\ C21_GetEntriesOneLevel

\* "a" references "b" and "b" references "a"; getEntry of "a" with include has
\* returned "a" with "b" attached as stored
C21_Witness ==
    /\ entryFiles["posts"]["a"] = File(EntryFileText(PAuthorB))
    /\ entryFiles["posts"]["b"] = File(EntryFileText(PWithAuthor))
    /\ ret.op = "getEntry" /\ ret.id = "a" /\ ret.include = <<"author">>
    /\ ret.res = Val([status |-> Str("draft"),
                      author |-> [t |-> "ref", id |-> "b", collection |-> "posts",
                                  entry |-> Val(PWithAuthor)]])

----------------------------------------------------------------------------
(* SpecFrame: a registry with a collection named "posts" and one named        *)
(* "globals", a global "site" and an asset, written by the sequential caller  *)

InitFrame ==
    /\ collections = {"posts", "globals"}
    /\ globals = {"site"}
    /\ entryFiles = [c \in {"posts", "globals"} |-> [id \in {"a", "site"} |-> NoFile]]
    /\ globalFiles = [g \in {"site"} |-> NoFile]
    /\ assetFiles = [f \in {Name("logo", ".png")} |-> AssetFile(BytesOf(1))]
    /\ dirs = {"assets"}
    /\ up = NoUploads
    /\ ret = Idle

NextFrame ==
    \* the id is the name of the global as well, or is not; the schema accepts two
    \* of the payloads and rejects one; "ghost" is not registered
    \/ \E c \in {"posts", "globals", "ghost"}, id \in {"a", "site"},
          d \in {PDraft, PPublished, PWrongType} : SetEntryCall(c, id, d)
    \/ \E c \in {"posts", "globals", "ghost"}, id \in {"a", "site"} :
           DeleteEntryCall(c, id)
    \/ \E v \in {GSite, GWrongType} : SetGlobalValueCall("site", v)
    \/ GetGlobalValueCall("site")
    \/ Return

SpecFrame == InitFrame /\ [][NextFrame]_vars

\* the step is a setEntry or deleteEntry call on a registered collection
IsEntryWrite ==
    ret = Idle /\ ret'.op \in {"setEntry", "deleteEntry"} /\ ret'.col \in collections

\* every entry file but the one of entry (c, id) is after the step as before it
OtherEntriesUnchanged(c, id) ==
    \A c2 \in DOMAIN entryFiles :
        \A id2 \in DOMAIN entryFiles[c2] :
            <<c2, id2>> # <<c, id>> => entryFiles'[c2][id2] = entryFiles[c2][id2]

\* every global has the same file and the same value after the step as before it
GlobalValuesUnchanged ==
    /\ globalFiles' = globalFiles
    /\ \A g \in globals :
           GetGlobalValue(globals', globalFiles', g) = GetGlobalValue(globals, globalFiles, g)

C22_Step ==
    IsEntryWrite =>
        /\ OtherEntriesUnchanged(ret'.col, ret'.id)
        /\ GlobalValuesUnchanged
        /\ assetFiles' = assetFiles

\* C22: entry writes touch one document only: for any registered collection name c
\* and any id, a setEntry(c, id, d) or deleteEntry(c, id) call, whether it succeeds
\* or fails, changes at most the file of entry (c, id); every other entry of c,
\* every entry of every other collection, every global value and every asset is
\* the same after the call as before it.
C22_EntryWriteTouchesOneDocument == [][C22_Step]_vars

\* what does hold: outside the collection named "globals" the call changes no
\* global value, and in every collection it changes no other entry and no asset
C22_StepOutsideGlobals ==
    IsEntryWrite =>
        /\ OtherEntriesUnchanged(ret'.col, ret'.id)
        /\ ret'.col # "globals" => GlobalValuesUnchanged
        /\ assetFiles' = assetFiles
C22_OneDocumentOutsideGlobals == [][C22_StepOutsideGlobals]_vars

\* a global value is read from the very file the entry of that name is kept in
C22_SharedPath ==
    \A g \in DOMAIN globalFiles : globalFiles[g] = FileOf(entryFiles, "globals", g)

----------------------------------------------------------------------------
(* Properties of listAssets and getAsset under SpecAssets *)

\* C23: whenever listAssets is called with a `limit` n, for every n >= 0 (n = 0
\* included), it returns at most n assets.
C23_AtMostLimit ==
    (ret.op = "listAssets" /\ ret.opts.limit.on)
        => Len(ret.res.assets) <= ret.opts.limit.n

\* what does hold: a limit n >= 1 is kept, and a limit of 0 is taken as no limit
C23_AtMostPositiveLimit ==
    (ret.op = "listAssets" /\ ret.opts.limit.on /\ ret.opts.limit.n >= 1)
        => Len(ret.res.assets) <= ret.opts.limit.n
C23_ZeroIsNoLimit ==
    (/\ ret.op = "listAssets" /\ ret.opts.limit.on /\ ret.opts.limit.n = 0
     /\ ~ret.opts.search.on /\ ~ret.opts.startAfter.on)
        => Len(ret.res.assets) = Len(ret.order)

\* C24: the contentType getAsset returns depends only on the extension of the
\* filename, through the extension table (undefined for an extension the table
\* does not have), and is the same for every combination of transform options:
\* it is image/jpeg for "photo.jpg" whatever width or format is asked for, also
\* when the returned bytes were re-encoded to that format.
C24_ContentTypeFromExtensionOnly ==
    (ret.op = "getAsset" /\ ret.res # Null)
        => /\ ret.res.contentType = GetContentType(ret.filename)
           /\ ret.filename = Name("photo", ".jpg")
                  => ret.res.contentType = Given("image/jpeg")
           /\ ret.filename = Name("notes", ".txt")
                  => ret.res.contentType = Given("text/plain")
           /\ ret.filename = Name("data", ".bin") => ret.res.contentType = NotGiven

\* getAsset("photo.jpg", {format: "webp"}) has returned bytes re-encoded to webp
\* with the contentType image/jpeg
C24_Witness ==
    /\ ret.op = "getAsset"
    /\ ret.filename = Name("photo", ".jpg")
    /\ ret.opts.format = Given("webp")
    /\ ret.res # Null
    /\ "format" \in DOMAIN ret.res.data
    /\ ret.res.data.format = Given("webp")
    /\ ret.res.contentType = Given("image/jpeg")

====
